---- MODULE Spec2Model ----
(***************************************************************************)
(* Model of the Transcripter transcription pipeline:                       *)
(*   providers/base.py       TranscriptionProvider, the error classes      *)
(*   providers/{groq,openai_provider,deepgram,assemblyai,google_cloud}.py  *)
(*   transcription.py        TranscriptionService (fallback and retry)     *)
(*                                                                         *)
(* Python values are encoded as follows.                                   *)
(*   Optional[T]   a sequence: <<>> is None, <<x>> is the value x          *)
(*   str messages  a sequence of word tokens; str.lower() and the `in`     *)
(*                 substring test work on token sequences                  *)
(*   exceptions    records [type, msg, provider, recoverable]              *)
(***************************************************************************)
EXTENDS Integers, Sequences, FiniteSets, TLC

VARIABLES
    provider_type,           \* TranscriptionService.provider_type
    fallback_provider_type,  \* <<>> when self._fallback_provider is None
    last_error,              \* TranscriptionService.last_error
    last_result,             \* TranscriptionService.last_result
    last_transcription,      \* TranscriptionService.last_transcription
    installed,               \* per vendor library, what importing it does
    ctor,                    \* the arguments and outcome of TranscriptionService.__init__
    registry,                \* ProviderRegistry._providers, in insertion order
    cache,                   \* TranscriptionCache.cache
    access_order,            \* TranscriptionCache.access_order
    max_size,                \* TranscriptionCache.max_size
    history,                 \* ClipboardHistory.history
    max_items,               \* ClipboardHistory.max_items
    instances,               \* the provider objects alive: per holder, <<>> or the object's fields
    aai_settings,            \* assemblyai.settings.api_key of the imported assemblyai module
    twin,                    \* a second TranscriptionService of the same configuration, and its caller
    is_recording,            \* TranscripterApp.is_recording
    recorder,                \* AudioRecorder: is_recording, audio_data, the recording being captured
    temp_file,               \* the file at TranscripterApp.temp_audio_file: <<>> or <<recording saved in it>>
    workers,                 \* per recording, the position of its _process_transcription thread
    pc,                      \* "new" | "failed" | "idle" | "loop" | "done": position of the caller
    call,                    \* arguments of the call in progress / just returned
    hist                     \* what the call in progress / just returned has done

vars == <<provider_type, fallback_provider_type, last_error, last_result,
          last_transcription, installed, ctor, registry, cache, access_order,
          max_size, history, max_items, instances, aai_settings, twin,
          is_recording, recorder, temp_file, workers, pc, call, hist>>

facade_vars == <<last_error, last_result, last_transcription>>
\* what the rest of the program holds besides the facade
cache_vars == <<cache, access_order, max_size>>

history_vars == <<history, max_items>>

instance_vars == <<instances, aai_settings>>

app_vars == <<is_recording, recorder, temp_file, workers>>

aux_vars == <<registry, cache_vars, history_vars, instance_vars, twin, app_vars>>

config_vars == <<provider_type, fallback_provider_type, installed, ctor, aux_vars>>

-----------------------------------------------------------------------------
(* Bounds of the model *)

\* largest max_retries argument tried
MaxRetries == 3

-----------------------------------------------------------------------------
(* providers/base.py: ProviderType, ProviderCapabilities *)

ProviderType == {"groq", "openai", "google_cloud", "assemblyai", "deepgram"}

\* os.path.getsize(file_path) / (1024 * 1024): file sizes are counted in units
\* of 1024 bytes (TLC integers have 32 bits), so a megabyte is 1024 units
MB == 1024

supported_formats(p) ==
    CASE p \in {"groq", "openai"} ->
            {"wav", "mp3", "m4a", "flac", "ogg", "webm", "mp4", "mpeg", "mpga"}
      [] p \in {"deepgram", "assemblyai"} ->
            {"wav", "mp3", "m4a", "flac", "ogg", "webm", "mp4", "mpeg", "mpga", "aac"}
      [] p = "google_cloud" ->
            {"wav", "flac", "mp3", "ogg", "webm"}

max_file_size_mb(p) ==
    CASE p \in {"groq", "openai"} -> 25
      [] p = "deepgram" -> 2000
      [] p = "assemblyai" -> 2200
      [] p = "google_cloud" -> 480

\* get_supported_models(): the model ids, in the order of the list
get_supported_models(p) ==
    CASE p = "groq" -> <<"whisper-large-v3-turbo", "whisper-large-v3">>
      [] p = "openai" -> <<"whisper-1">>
      [] p = "deepgram" -> <<"nova-2", "nova", "whisper-large", "whisper-medium",
                             "whisper-small", "whisper-base", "whisper-tiny">>
      [] p = "assemblyai" -> <<"best", "nano">>
      [] p = "google_cloud" -> <<"chirp_2", "chirp", "default">>

\* get_default_model() as each provider overrides it
get_default_model(p) ==
    CASE p = "groq" -> "whisper-large-v3-turbo"
      [] p = "openai" -> "whisper-1"
      [] p = "deepgram" -> "nova-2"
      [] p = "assemblyai" -> "best"
      [] p = "google_cloud" -> "chirp_2"

\* the literal in  model = model or "..."  of transcribe_file
default_model(p) ==
    CASE p = "groq" -> "whisper-large-v3-turbo"
      [] p = "openai" -> "whisper-1"
      [] p = "deepgram" -> "nova-2"
      [] p = "assemblyai" -> "best"
      [] p = "google_cloud" -> "chirp_2"

-----------------------------------------------------------------------------
(* Strings *)

\* str.lower() on one token
LowerToken(t) ==
    CASE t = "Rate" -> "rate"
      [] t = "Invalid" -> "invalid"
      [] t = "API" -> "api"
      [] t = "Key" -> "key"
      [] t = "Unauthorized" -> "unauthorized"
      [] t = "Authentication" -> "authentication"
      [] t = "Permission" -> "permission"
      [] t = "Too" -> "too"
      [] t = "Many" -> "many"
      [] t = "Requests" -> "requests"
      [] t = "Connection" -> "connection"
      [] t = "Groq" -> "groq"
      [] t = "OpenAI" -> "openai"
      [] t = "Deepgram" -> "deepgram"
      [] t = "AssemblyAI" -> "assemblyai"
      [] t = "Google" -> "google"
      [] t = "Cloud" -> "cloud"
      [] t = "Audio" -> "audio"
      [] t = "Unsupported" -> "unsupported"
      [] t = "File" -> "file"
      [] t = ".WAV" -> ".wav"
      [] OTHER -> t

\* str.lower()
Lower(s) == [i \in 1..Len(s) |-> LowerToken(s[i])]

\* needle in hay
Contains(hay, needle) ==
    \E i \in 1..(Len(hay) - Len(needle) + 1) :
        SubSeq(hay, i, i + Len(needle) - 1) = needle

\* str.lstrip(".") on a file suffix
LStripDot(s) ==
    CASE s = ".wav" -> "wav"
      [] s = ".aac" -> "aac"
      [] s = ".txt" -> "txt"
      [] s = ".mp4" -> "mp4"
      [] OTHER -> s

-----------------------------------------------------------------------------
(* providers/base.py: exceptions *)

TranscriptionErrorExc(message, provider, recoverable) ==
    [type |-> "TranscriptionError", msg |-> message, provider |-> <<provider>>,
     recoverable |-> recoverable]

APIKeyError(p) ==
    [type |-> "APIKeyError",
     msg |-> <<"Invalid", "or", "missing", "API", "key", "for", p>>,
     provider |-> <<p>>, recoverable |-> FALSE]

RateLimitError(p) ==
    [type |-> "RateLimitError",
     msg |-> <<"Rate", "limit", "exceeded", "for", p>>,
     provider |-> <<p>>, recoverable |-> TRUE]

\* an exception that is no TranscriptionError: it has no provider
\* attribute, and recoverable is never read on it
OtherExc(type, message) ==
    [type |-> type, msg |-> message, provider |-> <<>>, recoverable |-> FALSE]

\* except (TranscriptionError, APIKeyError, RateLimitError)
IsTranscriptionError(e) ==
    e.type \in {"TranscriptionError", "APIKeyError", "RateLimitError"}

\* what a caller-supplied callback raises when it raises
CallbackMsg == <<"callback", "failed">>
CallbackExc == OtherExc("RuntimeError", CallbackMsg)

-----------------------------------------------------------------------------
(* The state a call works on: the facade's session fields and the log of   *)
(* what the current transcribe_file call has done so far.                  *)

\* F applied to the value of x, x being evaluated once (a local binding)
\* a Python dict with no keys
EmptyDict == [k \in {} |-> ""]

Bind(x, F(_)) == CHOOSE y \in {F(v) : v \in {x}} : TRUE

Event(ev, who, msg) == [ev |-> ev, who |-> who, msg |-> msg]

Log(st, ev, who, msg) == [st EXCEPT !.log = Append(@, Event(ev, who, msg))]

\* result of a step that may raise: the state after it and Optional[exception]
Step(st, raised) == [st |-> st, raised |-> raised]

\* calling a caller-supplied callback: "returns" or "raises"
InvokeCallback(cbval, name, who, msg, st) ==
    IF cbval = "raises"
    THEN Step(Log(st, name, who, msg), <<CallbackExc>>)
    ELSE Step(Log(st, name, who, msg), <<>>)

-----------------------------------------------------------------------------
(* providers/base.py: TranscriptionProvider *)

\* os.path.splitext(file_path)[1].lower().lstrip(".")
Ext(f) == LStripDot(LowerToken(f.suffix))

FileNotFoundMsg == <<"Audio", "file", "not", "found">>
UnsupportedFormatMsg == <<"Unsupported", "audio", "format">>
SizeExceededMsg == <<"File", "size", "exceeds", "maximum">>

\* file_size_mb > self.capabilities.max_file_size_mb, with
\* file_size_mb = getsize / (1024 * 1024) (a division by 2^20, exact in floats)
SizeExceeds(p, f) == f.size > max_file_size_mb(p) * MB

\* _validate_file: <<>> when it returns True, else the exception it raises
_validate_file_NoSizeCheck(p, f) ==
    IF ~f.exists
    THEN <<OtherExc("FileNotFoundError", FileNotFoundMsg)>>
    ELSE IF Ext(f) \notin supported_formats(p)
    THEN <<OtherExc("ValueError", UnsupportedFormatMsg)>>
    ELSE <<>>

_validate_file(p, f) ==
    IF ~f.exists
    THEN <<OtherExc("FileNotFoundError", FileNotFoundMsg)>>
    ELSE IF Ext(f) \notin supported_formats(p)
    THEN <<OtherExc("ValueError", UnsupportedFormatMsg)>>
    ELSE IF SizeExceeds(p, f)
    THEN <<OtherExc("ValueError", SizeExceededMsg)>>
    ELSE <<>>

\* _notify_started: if self.on_transcription_started: self.on_transcription_started()
_notify_started(pcb, who, st) ==
    LET st1 == Log(st, "_notify_started", who, <<>>)
    IN IF pcb.started = "unset"
       THEN Step(st1, <<>>)
       ELSE InvokeCallback(pcb.started, "on_transcription_started", who, <<>>, st1)

\* _notify_failed: if self.on_transcription_failed: self.on_transcription_failed(error)
_notify_failed(pcb, who, error, st) ==
    LET st1 == Log(st, "_notify_failed", who, error)
    IN IF pcb.failed = "unset"
       THEN Step(st1, <<>>)
       ELSE InvokeCallback(pcb.failed, "on_transcription_failed", who, error, st1)

\* transcription.py: the closure on_completed of _setup_provider_callbacks
on_completed_KeepsError(pcb, who, result, st) ==
    LET st1 == [st EXCEPT !.last_result = <<result>>,
                          !.last_transcription = <<result.text>>]
    IN IF pcb.user_completed = "unset"
       THEN Step(st1, <<>>)
       ELSE InvokeCallback(pcb.user_completed, "on_transcription_completed", who,
                           <<result.text>>, st1)

on_completed(pcb, who, result, st) ==
    LET st1 == [st EXCEPT !.last_result = <<result>>,
                          !.last_transcription = <<result.text>>,
                          !.last_error = <<>>]
    IN IF pcb.user_completed = "unset"
       THEN Step(st1, <<>>)
       ELSE InvokeCallback(pcb.user_completed, "on_transcription_completed", who,
                           <<result.text>>, st1)

\* _notify_completed: if self.on_transcription_completed: self.on_transcription_completed(result)
\* pcb.completed is "unset", "closure" (the facade's on_completed) or the
\* behaviour of a callback set directly on the provider
_notify_completed(pcb, who, result, st) ==
    LET st1 == Log(st, "_notify_completed", who, <<result.text>>)
    IN CASE pcb.completed = "unset" -> Step(st1, <<>>)
         [] pcb.completed = "closure" -> on_completed(pcb, who, result, st1)
         [] OTHER -> InvokeCallback(pcb.completed, "on_transcription_completed", who,
                                    <<result.text>>, st1)

TranscriptionResult(text, p, model) == [text |-> text, provider |-> p, model |-> model]

-----------------------------------------------------------------------------
(* providers/*.py: transcribe_file of the five providers *)

\* f"Groq API error: {e}" and its four siblings
ApiErrorMsg(p, e) ==
    CASE p = "groq" -> <<"Groq", "API", "error:">> \o e
      [] p = "openai" -> <<"OpenAI", "API", "error:">> \o e
      [] p = "deepgram" -> <<"Deepgram", "API", "error:">> \o e
      [] p = "assemblyai" -> <<"AssemblyAI", "API", "error:">> \o e
      [] p = "google_cloud" -> <<"Google", "Cloud", "API", "error:">> \o e

\* the substrings of error_str that make the failure an APIKeyError
AuthMarkers(p) ==
    CASE p = "groq" -> {<<"invalid", "api", "key">>, <<"authentication">>}
      [] p \in {"openai", "assemblyai"} ->
            {<<"invalid", "api", "key">>, <<"authentication">>, <<"401">>}
      [] p = "deepgram" ->
            {<<"invalid", "api", "key">>, <<"authentication">>, <<"401">>,
             <<"unauthorized">>}
      [] p = "google_cloud" ->
            {<<"permission", "denied">>, <<"invalid">>, <<"credentials">>}

\* the substrings of error_str that make the failure a RateLimitError
RateMarkers(p) ==
    CASE p = "groq" -> {<<"rate", "limit">>}
      [] p \in {"openai", "assemblyai", "deepgram"} -> {<<"rate", "limit">>, <<"429">>}
      [] p = "google_cloud" -> {}

\* the if / elif / else chain of the except Exception handler
Classify(p, error_str, error_msg) ==
    IF \E m \in AuthMarkers(p) : Contains(error_str, m)
    THEN APIKeyError(p)
    ELSE IF \E m \in RateMarkers(p) : Contains(error_str, m)
    THEN RateLimitError(p)
    ELSE TranscriptionErrorExc(error_msg, p, TRUE)

\* what transcribe_file hands to its caller
Returned(st, result) == [out |-> "return", result |-> result, exc |-> <<>>, st |-> st]
Raised(st, e) == [out |-> "raise", result |-> <<>>, exc |-> <<e>>, st |-> st]

\* except Exception as e: classify str(e), notify, raise
HandleException(p, who, pcb, e, st) ==
    LET error_str == Lower(e.msg)
        error_msg == ApiErrorMsg(p, e.msg)
    IN Bind(_notify_failed(pcb, who, error_msg, st), LAMBDA n :
            IF n.raised # <<>>
            THEN Raised(n.st, n.raised[1])
            ELSE Raised(n.st, Classify(p, error_str, error_msg)))

\* inside the try: notify failed, then raise TranscriptionError(error_msg);
\* the raise is caught by the except Exception handler of the same try
NotifyAndRaiseInsideTry(p, who, pcb, error_msg, st) ==
    Bind(_notify_failed(pcb, who, error_msg, st), LAMBDA n :
        IF n.raised # <<>>
        THEN HandleException(p, who, pcb, n.raised[1], n.st)
        ELSE HandleException(p, who, pcb, TranscriptionErrorExc(error_msg, p, TRUE), n.st))

\* the part of the try block after the vendor client has answered
AfterVendorCall(p, who, pcb, m, vo, st) ==
    CASE vo.kind = "err" ->
            HandleException(p, who, pcb, OtherExc("VendorError", vo.msg), st)
      [] vo.kind = "empty" /\ p = "deepgram" ->
            NotifyAndRaiseInsideTry(p, who, pcb,
                <<"Deepgram", "returned", "empty", "results">>, st)
      [] vo.kind = "status_error" /\ p = "assemblyai" ->
            NotifyAndRaiseInsideTry(p, who, pcb,
                <<"AssemblyAI", "error:">> \o vo.msg, st)
      [] vo.kind = "empty" /\ p = "google_cloud" ->
            Bind(_notify_failed(pcb, who, <<"Google", "Cloud", "returned", "empty", "results">>, st), LAMBDA n :
                IF n.raised # <<>>
                THEN HandleException(p, who, pcb, n.raised[1], n.st)
                ELSE Returned(n.st, <<TranscriptionResult("", p, m)>>))
      [] OTHER ->
            LET result == TranscriptionResult(vo.text, p, m)
            IN Bind(_notify_completed(pcb, who, result, st), LAMBDA c :
                    IF c.raised # <<>>
                    THEN HandleException(p, who, pcb, c.raised[1], c.st)
                    ELSE Returned(c.st, <<result>>))

\* transcribe_file using its default whatever model is passed
ModelOrDefault_IgnoresArgument(p, model) == default_model(p)

\* model = model or "<default>"
ModelOrDefault(p, model) == IF model = <<>> \/ model[1] = "" THEN default_model(p) ELSE model[1]

\* RejectFile as the design document has it: the validation error propagates
RejectFile_Propagates(p, who, pcb, e, st) == Raised(Log(st, "rejected", who, e.msg), e)

\* the except (FileNotFoundError, ValueError) branch: notify and return None
RejectFile(p, who, pcb, e, st) ==
    Bind(_notify_failed(pcb, who, e.msg, Log(st, "rejected", who, e.msg)), LAMBDA n :
        IF n.raised # <<>> THEN Raised(n.st, n.raised[1]) ELSE Returned(n.st, <<>>))

\* the arguments a provider's transcribe_file is called with
Args(f, model, opts) == [file |-> f, model |-> model, opts |-> opts]

\* <Provider>.transcribe_file(file_path, model, language, prompt, temperature,
\* ...) with the vendor answering vo
ProviderTranscribe(p, who, pcb, f, model, opts, vo, st0) ==
    LET st1 == Log(st0, "enter", who, Args(f, model, opts))
        v == _validate_file(p, f)
    IN IF v # <<>>
       THEN RejectFile(p, who, pcb, v[1], st1)
       ELSE Bind(_notify_started(pcb, who, st1), LAMBDA s :
                IF s.raised # <<>>
                THEN HandleException(p, who, pcb, s.raised[1], s.st)
                ELSE AfterVendorCall(p, who, pcb, ModelOrDefault(p, model), vo,
                                     Log(s.st, "vendor_call", who, <<>>)))

-----------------------------------------------------------------------------
(* Construction: the providers' __init__ and _initialize_client,           *)
(* providers/factory.py ProviderRegistry, TranscriptionService.__init__    *)

\* what importing a vendor library does: it loads ("ok"), it is not installed
\* ("absent": ImportError) or it is installed but fails while loading
\* ("broken": an exception that is no ImportError)
LoadOutcomes == {"ok", "absent", "broken"}

\* the class each provider module defines
ProviderClass(p) ==
    CASE p = "groq" -> "GroqProvider"
      [] p = "openai" -> "OpenAIProvider"
      [] p = "assemblyai" -> "AssemblyAIProvider"
      [] p = "deepgram" -> "DeepgramProvider"
      [] p = "google_cloud" -> "GoogleCloudProvider"

\* the provider_type attribute of a provider class
ProviderTypeOf(cls) == CHOOSE p \in ProviderType : ProviderClass(p) = cls

\* ProviderRegistry.register(provider_type)(provider_class) on the dict reg:
\* cls._providers[provider_type] = provider_class
register(reg, ptype, provider_class) ==
    IF \E i \in 1..Len(reg) : reg[i].type = ptype
    THEN [i \in 1..Len(reg) |-> IF reg[i].type = ptype
                                 THEN [type |-> ptype, class |-> provider_class]
                                 ELSE reg[i]]
    ELSE Append(reg, [type |-> ptype, class |-> provider_class])

\* providers/__init__.py: the provider modules in the order they are imported
ImportOrder == <<"groq", "openai", "assemblyai", "deepgram", "google_cloud">>

\* the registry once the first n provider modules are imported
RECURSIVE RegistryAfter(_)
RegistryAfter(n) ==
    IF n = 0 THEN <<>>
    ELSE register(RegistryAfter(n - 1), ImportOrder[n], ProviderClass(ImportOrder[n]))

\* the registry once the providers package is imported
ImportedRegistry == RegistryAfter(Len(ImportOrder))

\* ProviderRegistry._providers
_providers == registry

\* cls._providers.keys(), as a list
get_available_providers == [i \in 1..Len(_providers) |-> _providers[i].type]

\* cls._providers.get(provider_type): Optional[class]
get_provider_class(p) ==
    IF \E i \in 1..Len(_providers) : _providers[i].type = p
    THEN <<_providers[CHOOSE i \in 1..Len(_providers) : _providers[i].type = p].class>>
    ELSE <<>>

\* os.path.exists(self._credentials_path) of the Google Cloud provider
CredentialsFileExists(api_key) == api_key = "creds.json"

NotInstalledMsg == <<"package", "is", "not", "installed">>
BrokenImportExc == OtherExc("AttributeError", <<"vendor", "library", "failed", "to", "load">>)

\* <Provider>._initialize_client: <<>> when it returns, else the exception
_initialize_client(p, api_key, libs) ==
    CASE libs[p] = "absent" -> <<OtherExc("ImportError", NotInstalledMsg)>>
      [] libs[p] = "broken" -> <<BrokenImportExc>>
      [] p = "google_cloud" /\ ~CredentialsFileExists(api_key) ->
            <<OtherExc("FileNotFoundError", <<"Google", "Cloud", "credentials", "file", "not", "found">>)>>
      [] OTHER -> <<>>

\* <Provider>.__init__(api_key): TranscriptionProvider.__init__, then
\* self._initialize_client()
ProviderInit(p, api_key, libs) ==
    IF api_key = ""
    THEN <<OtherExc("ValueError", <<"API", "key", "is", "required", "for", p>>)>>
    ELSE _initialize_client(p, api_key, libs)

\* ProviderRegistry.create_provider with the "not registered" error missing
create_provider_Unchecked(p, api_key, libs) ==
    IF get_provider_class(p) = <<>>
    THEN ProviderInit(p, api_key, libs)
    ELSE ProviderInit(ProviderTypeOf(get_provider_class(p)[1]), api_key, libs)

\* ProviderRegistry.create_provider: <<>> when provider_class(api_key) is
\* returned, else the exception
create_provider(p, api_key, libs) ==
    IF get_provider_class(p) = <<>>
    THEN <<OtherExc("ValueError", <<"Provider", p, "is", "not", "registered.", "Available", "providers:">>
                                   \o get_available_providers)>>
    ELSE ProviderInit(ProviderTypeOf(get_provider_class(p)[1]), api_key, libs)

\* ProviderRegistry.is_provider_available: the value returned, or the
\* exception that leaves it
is_provider_available(p, libs) ==
    IF p \notin ProviderType
    THEN [ret |-> <<FALSE>>, raised |-> <<>>]
    ELSE CASE libs[p] = "ok" -> [ret |-> <<TRUE>>, raised |-> <<>>]
           [] libs[p] = "absent" -> [ret |-> <<FALSE>>, raised |-> <<>>]
           [] OTHER -> [ret |-> <<>>, raised |-> <<BrokenImportExc>>]

\* ProviderRegistry.get_installed_providers:
\* [p for p in cls._providers.keys() if cls.is_provider_available(p)]
get_installed_providers(libs) ==
    LET keys == get_available_providers
        raising == {i \in 1..Len(keys) : is_provider_available(keys[i], libs).raised # <<>>}
    IN IF raising # {}
       THEN [ret |-> <<>>,
             raised |-> is_provider_available(keys[CHOOSE i \in raising : \A j \in raising : i <= j], libs).raised]
       ELSE [ret |-> <<SelectSeq(keys, LAMBDA k : is_provider_available(k, libs).ret = <<TRUE>>)>>,
             raised |-> <<>>]

\* the fallback part of TranscriptionService.__init__: the fallback provider
\* (None when not configured or when its construction failed)
FallbackInit_Propagates(fallback_api_key, fallback_type, libs) ==
    IF fallback_api_key # <<>> /\ fallback_api_key[1] # "" /\ fallback_type # <<>>
    THEN [provider |-> IF create_provider(fallback_type[1], fallback_api_key[1], libs) = <<>> THEN fallback_type ELSE <<>>,
          raised |-> create_provider(fallback_type[1], fallback_api_key[1], libs),
          failed |-> create_provider(fallback_type[1], fallback_api_key[1], libs) # <<>>]
    ELSE [provider |-> <<>>, raised |-> <<>>, failed |-> FALSE]

FallbackInit(fallback_api_key, fallback_type, libs) ==
    IF fallback_api_key # <<>> /\ fallback_api_key[1] # "" /\ fallback_type # <<>>
    THEN [provider |-> IF create_provider(fallback_type[1], fallback_api_key[1], libs) = <<>> THEN fallback_type ELSE <<>>,
          raised |-> <<>>,
          failed |-> create_provider(fallback_type[1], fallback_api_key[1], libs) # <<>>]
    ELSE [provider |-> <<>>, raised |-> <<>>, failed |-> FALSE]

\* TranscriptionService.__init__(api_key, provider_type, fallback_api_key,
\* fallback_provider_type): the exception it raises (Optional), and the
\* providers of the facade it builds
ServiceInit(api_key, ptype, fallback_api_key, fallback_type, libs) ==
    LET p == IF ptype = <<>> THEN "groq" ELSE ptype[1]
        fb == FallbackInit(fallback_api_key, fallback_type, libs)
    IN IF api_key = ""
       THEN [raised |-> <<OtherExc("ValueError", <<"API", "key", "is", "required">>)>>,
             provider |-> p, fallback |-> <<>>, fallback_failed |-> FALSE]
       ELSE IF create_provider(p, api_key, libs) # <<>>
       THEN [raised |-> create_provider(p, api_key, libs), provider |-> p,
             fallback |-> <<>>, fallback_failed |-> FALSE]
       ELSE [raised |-> fb.raised, provider |-> p,
             fallback |-> IF fb.raised = <<>> THEN fb.provider ELSE <<>>,
             fallback_failed |-> fb.failed]

-----------------------------------------------------------------------------
(* transcription.py: TranscriptionService.transcribe_file and _try_fallback *)

\* _setup_provider_callbacks: what the provider's three callbacks are set to
_setup_provider_callbacks(cb) ==
    [started |-> cb.started, completed |-> "closure", failed |-> cb.failed,
     user_completed |-> cb.completed]

\* how a provider call ended: "result", "None" or the type of the exception
OutKind(r) ==
    IF r.out = "raise" THEN r.exc[1].type
    ELSE IF r.result = <<>> THEN "None" ELSE "result"

\* what transcribe_file hands to its caller: ret is Optional[str], escaped the
\* exception that left the call (Optional); pout / fout tell how the primary
\* and the fallback provider call ended
Outcome(st, ret, escaped, pout, fout) ==
    [st |-> st, ret |-> ret, escaped |-> escaped, pout |-> pout, fout |-> fout]

\* self.last_error = str(e); if self.on_transcription_failed: ...(str(e)); return None
RecordAndNotify(cb, e, st, pout, fout) ==
    LET st1 == [st EXCEPT !.last_error = <<e.msg>>]
    IN Bind(IF cb.failed = "unset"
            THEN Step(st1, <<>>)
            ELSE InvokeCallback(cb.failed, "on_transcription_failed", "S", e.msg, st1),
            LAMBDA n : Outcome(n.st, <<>>, n.raised, pout, fout))

\* result.text of a returned provider result, None when the provider returned None
TextOf(r) == IF r.result = <<>> THEN <<>> ELSE <<r.result[1].text>>

\* _try_fallback with a second-level fallback: a failed fallback is called again
_try_fallback_Again(fb, cb, f, opts, vo_f, st, pout) ==
    IF fb = <<>>
    THEN Outcome(st, <<>>, <<>>, pout, "not_called")
    ELSE Bind(ProviderTranscribe(fb[1], "F", _setup_provider_callbacks(cb), f, <<>>, opts, vo_f, st), LAMBDA r :
            IF r.out = "return"
            THEN Outcome(r.st, TextOf(r), <<>>, pout, OutKind(r))
            ELSE Bind(ProviderTranscribe(fb[1], "F", _setup_provider_callbacks(cb), f, <<>>, opts, vo_f, r.st), LAMBDA r2 :
                    IF r2.out = "return"
                    THEN Outcome(r2.st, TextOf(r2), <<>>, pout, OutKind(r2))
                    ELSE RecordAndNotify(cb, r2.exc[1], r2.st, pout, OutKind(r2))))

\* _try_fallback: the fallback gets no model argument
_try_fallback(fb, cb, f, opts, vo_f, st, pout) ==
    IF fb = <<>>
    THEN Outcome(st, <<>>, <<>>, pout, "not_called")
    ELSE Bind(ProviderTranscribe(fb[1], "F", _setup_provider_callbacks(cb), f, <<>>, opts, vo_f, st), LAMBDA r :
            IF r.out = "return"
            THEN Outcome(r.st, TextOf(r), <<>>, pout, OutKind(r))
            ELSE RecordAndNotify(cb, r.exc[1], r.st, pout, OutKind(r)))

\* if self._fallback_provider and e.recoverable
ShouldFallback_IgnoresRecoverable(fb, e) == fb # <<>>

ShouldFallback(fb, e) == fb # <<>> /\ e.recoverable

\* the keyword arguments transcribe_file hands to _try_fallback: language,
\* prompt, temperature and **kwargs; response_format is left to its default
FallbackOptions_DropsLanguage(opts) == [opts EXCEPT !.response_format = "text", !.language = <<>>]

FallbackOptions(opts) == [opts EXCEPT !.response_format = "text"]

\* TranscriptionService.transcribe_file
transcribe_file(primary, fb, cb, f, model, opts, vo_p, vo_f, st0) ==
    Bind(ProviderTranscribe(primary, "P", _setup_provider_callbacks(cb), f, model, opts, vo_p, st0), LAMBDA r :
        IF r.out = "return"
        THEN Outcome(r.st, TextOf(r), <<>>, OutKind(r), "not_called")
        ELSE IF IsTranscriptionError(r.exc[1]) /\ ShouldFallback(fb, r.exc[1])
        THEN _try_fallback(fb, cb, f, FallbackOptions(opts), vo_f, [r.st EXCEPT !.last_error = <<r.exc[1].msg>>], OutKind(r))
        ELSE RecordAndNotify(cb, r.exc[1], r.st, OutKind(r), "not_called"))

-----------------------------------------------------------------------------
(* transcription.py: TranscriptionService.transcribe_file_with_retry *)

\* if result:  (None and "" are both false)
Truthy(ret) == ret # <<>> /\ ret[1] # ""

\* self.last_error and "rate limit" in self.last_error.lower()
IsRateLimitMessage(err) == err # <<>> /\ Len(err[1]) > 0 /\ Contains(Lower(err[1]), <<"rate", "limit">>)

\* retry_delay * (attempt + 1)
BackoffDelay_Constant(retry_delay, attempt) == retry_delay

BackoffDelay(retry_delay, attempt) == retry_delay * (attempt + 1)

\* what one pass of the loop body decides once transcribe_file has ended with o:
\* "return" (return result), "sleep" (time.sleep, then the next pass),
\* "next" (fall to the next pass without sleeping), "break"
LoopDecision(o, attempt, max_retries) ==
    IF o.escaped # <<>>
    THEN (IF attempt < max_retries - 1 THEN "sleep" ELSE "break")
    ELSE IF Truthy(o.ret) THEN "return"
    ELSE IF IsRateLimitMessage(o.st.last_error)
    THEN (IF attempt < max_retries - 1 THEN "sleep" ELSE "next")
    ELSE "break"

-----------------------------------------------------------------------------
(* Inputs *)

File(exists, suffix, size) == [exists |-> exists, suffix |-> suffix, size |-> size]

\* request files given to the facade: a missing file, a small wav that every
\* provider accepts, and a wav above the 25 MB limit of Groq and OpenAI
FacadeFiles ==
    {File(FALSE, ".wav", 0), File(TRUE, ".wav", MB), File(TRUE, ".WAV", 26 * MB)}

\* the providers a facade is built from: Groq (OpenAI differs from it only in
\* the "401" / "429" markers), Deepgram (AssemblyAI likewise raises inside
\* its try block) and Google Cloud (no RateLimitError, empty result returned)
FacadeProviders == {"groq", "deepgram", "google_cloud"}

\* messages of the exceptions a vendor client raises
VendorMsgs ==
    {<<"Invalid", "API", "Key">>, <<"401", "Unauthorized">>,
     <<"Rate", "limit", "reached">>, <<"429", "Too", "Many", "Requests">>,
     <<"Permission", "denied">>, <<"Connection", "reset">>}

\* the vendor messages tried on a facade: an authentication failure, a
\* throttling and a failure of neither kind
FacadeVendorMsgs ==
    {<<"Invalid", "API", "Key">>, <<"Rate", "limit", "reached">>, <<"Connection", "reset">>}

\* transcripts a vendor returns
Texts == {"hello", ""}

VendorOutcome(kind, text, msg) == [kind |-> kind, text |-> text, msg |-> msg]

\* what the vendor client of provider p can answer to one request
VendorOutcomes(p, msgs) ==
    {VendorOutcome("ok", t, <<>>) : t \in Texts}
    \cup {VendorOutcome("err", "", m) : m \in msgs}
    \cup (IF p \in {"deepgram", "google_cloud"} THEN {VendorOutcome("empty", "", <<>>)} ELSE {})
    \cup (IF p = "assemblyai"
          THEN {VendorOutcome("status_error", "", m) : m \in msgs \cap {<<"Rate", "limit", "reached">>, <<"Connection", "reset">>}}
          ELSE {})

\* stands for the answer of a vendor that is not asked
NoOutcome == VendorOutcome("ok", "", <<>>)

Callbacks(started, completed, failed) == [started |-> started, completed |-> completed, failed |-> failed]

\* the caller's on_transcription_started / _completed / _failed
CallbackConfigs ==
    {Callbacks("unset", "unset", "unset"), Callbacks("returns", "returns", "returns"),
     Callbacks("raises", "returns", "returns"), Callbacks("returns", "raises", "returns"),
     Callbacks("returns", "returns", "raises"), Callbacks("unset", "returns", "unset")}

\* the callbacks of a caller of transcribe_file_with_retry
RetryCallbackConfigs ==
    {Callbacks("unset", "unset", "unset"), Callbacks("returns", "returns", "returns"),
     Callbacks("returns", "returns", "raises")}

\* model arguments
Models == {<<>>, <<"whisper-large-v3">>}

Options(language, prompt, temperature, response_format, kwargs) ==
    [language |-> language, prompt |-> prompt, temperature |-> temperature,
     response_format |-> response_format, kwargs |-> kwargs]

\* the defaults of transcribe_file: language=None, prompt=None,
\* temperature=0.0, response_format="text", no keyword arguments
DefaultOptions == Options(<<>>, <<>>, "0.0", "text", {})

\* language, prompt, temperature, response_format and **kwargs of a call
OptionSets == {DefaultOptions, Options(<<"pt">>, <<"names">>, "0.5", "verbose_json", {"diarize"})}

\* max_retries arguments
RetryCounts == {0, 1, MaxRetries}

\* retry_delay arguments (seconds)
RetryDelays == {1, 3}

-----------------------------------------------------------------------------
(* The state machine of one TranscriptionService and its caller *)

NoCall ==
    [op |-> "none", identity |-> "", api_key |-> "",
     file |-> File(FALSE, "", 0), model |-> <<>>, opts |-> DefaultOptions,
     cb |-> Callbacks("unset", "unset", "unset"), max_retries |-> 0, retry_delay |-> 0,
     attempt |-> 0]

NoHist ==
    [log |-> <<>>, sleeps |-> <<>>, pouts |-> <<>>, fouts |-> <<>>, ret |-> <<>>,
     escaped |-> <<>>, result |-> <<>>]

\* every vendor library is installed and loads
AllInstalled == [p \in ProviderType |-> "ok"]

\* the arguments and the outcome of TranscriptionService.__init__
Ctor(api_key, ptype, fallback_api_key, fallback_type, raised, fallback_failed) ==
    [api_key |-> api_key, ptype |-> ptype, fallback_api_key |-> fallback_api_key,
     fallback_type |-> fallback_type, raised |-> raised, fallback_failed |-> fallback_failed]

\* a facade whose construction is not followed
NoCtor == Ctor("", <<>>, <<>>, <<>>, <<>>, FALSE)

\* TranscriptionCache(): the default max_size, nothing cached
CacheInit ==
    /\ cache = EmptyDict
    /\ access_order = <<>>
    /\ max_size = 50

\* ClipboardHistory(): the default max_items, no entries
HistoryInit ==
    /\ history = <<>>
    /\ max_items = 50

\* the holders of provider objects: two facades
Slots == {1, 2}

\* no provider object built, the assemblyai module as imported
InstancesInit ==
    /\ instances = [s \in Slots |-> <<>>]
    /\ aai_settings = <<>>

\* a facade and its caller: the session fields, the position of the caller
\* and what its transcribe_file_with_retry call has done
Twin(err, position, attempt, sleeps, pouts, ret) ==
    [last_error |-> err, last_result |-> <<>>, last_transcription |-> <<>>, pc |-> position,
     attempt |-> attempt, sleeps |-> sleeps, pouts |-> pouts, ret |-> ret]

\* no second facade
NoTwin == Twin(<<>>, "none", 0, <<>>, <<>>, <<>>)

\* the recordings followed in the application
MaxRecordings == 2
Recordings == 1..MaxRecordings

\* AudioRecorder fields; recording is the number of the recording captured
Recorder(recording, audio_data, current) ==
    [is_recording |-> recording, audio_data |-> audio_data, current |-> current]

\* TranscripterApp.__init__ and AudioRecorder.__init__: not recording, no
\* temporary file, no worker thread
AppInit ==
    /\ is_recording = FALSE
    /\ recorder = Recorder(FALSE, <<>>, 0)
    /\ temp_file = <<>>
    /\ workers = [w \in Recordings |-> "none"]

\* the rest of the program where it plays no part
OtherInit ==
    /\ CacheInit
    /\ HistoryInit
    /\ InstancesInit
    /\ twin = NoTwin
    /\ AppInit

AuxInit ==
    /\ registry = ImportedRegistry
    /\ OtherInit

\* the state after TranscriptionService.__init__ has returned
Init ==
    /\ provider_type \in FacadeProviders
    /\ fallback_provider_type \in {<<>>} \cup {<<p>> : p \in FacadeProviders}
    /\ installed = AllInstalled
    /\ ctor = NoCtor
    /\ AuxInit
    /\ last_error = <<>>
    /\ last_result = <<>>
    /\ last_transcription = <<>>
    /\ pc = "idle"
    /\ call = NoCall
    /\ hist = NoHist

\* the facade state a transcribe_file call starts from
Session == [last_error |-> last_error, last_result |-> last_result, last_transcription |-> last_transcription, log |-> <<>>]

VendorCalled(log, who) == \E i \in 1..Len(log) : log[i].ev = "vendor_call" /\ log[i].who = who

\* the session fields after a call
StoreSession(st) ==
    /\ last_error' = st.last_error
    /\ last_result' = st.last_result
    /\ last_transcription' = st.last_transcription

\* transcribe_file with the vendors' answers: the answer of a vendor is drawn
\* only when that vendor is called
Attempts(f, model, opts, cb) ==
    LET try(vp, vf) == transcribe_file(provider_type, fallback_provider_type, cb, f, model, opts, vp, vf, Session)
    IN Bind(try(NoOutcome, NoOutcome), LAMBDA o0 :
         IF ~VendorCalled(o0.st.log, "P")
         THEN {o0}
         ELSE UNION {
                Bind(try(vp, NoOutcome), LAMBDA o1 :
                   IF ~VendorCalled(o1.st.log, "F")
                   THEN {o1}
                   ELSE {try(vp, vf) : vf \in VendorOutcomes(fallback_provider_type[1], FacadeVendorMsgs)})
                : vp \in VendorOutcomes(provider_type, FacadeVendorMsgs)})

\* a caller calls transcribe_file directly
TranscribeFile(f, model, opts, cb) ==
    /\ pc = "idle"
    /\ \E o \in Attempts(f, model, opts, cb) :
         /\ StoreSession(o.st)
         /\ hist' = [NoHist EXCEPT !.log = o.st.log, !.pouts = <<o.pout>>,
                                   !.fouts = <<o.fout>>, !.ret = o.ret, !.escaped = o.escaped]
    /\ call' = [NoCall EXCEPT !.op = "transcribe_file", !.file = f, !.model = model, !.opts = opts, !.cb = cb]
    /\ pc' = "done"
    /\ UNCHANGED config_vars

\* a caller calls transcribe_file_with_retry: for attempt in range(max_retries)
RetryBegin(f, cb, max_retries, retry_delay) ==
    /\ pc = "idle"
    /\ call' = [NoCall EXCEPT !.op = "transcribe_file_with_retry", !.file = f, !.cb = cb,
                              !.max_retries = max_retries, !.retry_delay = retry_delay]
    /\ hist' = NoHist
    /\ pc' = IF max_retries = 0 THEN "done" ELSE "loop"
    /\ UNCHANGED <<config_vars, facade_vars>>

\* one pass of the loop body of transcribe_file_with_retry
RetryAttempt ==
    /\ pc = "loop"
    /\ \E o \in Attempts(call.file, call.model, call.opts, call.cb) :
         LET d == LoopDecision(o, call.attempt, call.max_retries)
             h == [hist EXCEPT !.log = o.st.log, !.pouts = Append(@, o.pout),
                               !.fouts = Append(@, o.fout)]
         IN /\ StoreSession(o.st)
            /\ IF d = "sleep"
               THEN /\ hist' = [h EXCEPT !.sleeps = Append(@, BackoffDelay(call.retry_delay, call.attempt))]
                    /\ call' = [call EXCEPT !.attempt = @ + 1]
                    /\ pc' = "loop"
               ELSE /\ hist' = [h EXCEPT !.ret = IF d = "return" THEN o.ret ELSE <<>>]
                    /\ call' = call
                    /\ pc' = "done"
    /\ UNCHANGED config_vars

\* the caller has taken the return value; the facade is ready for the next call
Return ==
    /\ pc = "done"
    /\ pc' = "idle"
    /\ call' = NoCall
    /\ hist' = NoHist
    /\ UNCHANGED <<config_vars, facade_vars>>

\* one facade and its callers
Next ==
    \/ \E f \in FacadeFiles, model \in Models, opts \in OptionSets, cb \in CallbackConfigs : TranscribeFile(f, model, opts, cb)
    \/ \E f \in FacadeFiles, cb \in RetryCallbackConfigs, n \in RetryCounts, d \in RetryDelays : RetryBegin(f, cb, n, d)
    \/ RetryAttempt
    \/ Return

Spec == Init /\ [][Next]_vars

-----------------------------------------------------------------------------
(* A provider used on its own: transcribe_file of each of the five         *)
(* providers, on every kind of request file and vendor answer.             *)

\* file sizes at and just above each provider's limit
ProviderFileSizes ==
    {MB, 25 * MB, 25 * MB + 1, 480 * MB, 480 * MB + 1, 2000 * MB, 2000 * MB + 1,
     2200 * MB, 2200 * MB + 1}

ProviderFiles ==
    {File(FALSE, ".wav", 0)}
    \cup {File(TRUE, sfx, sz) : sfx \in {".wav", ".WAV", ".aac", ".txt", ".mp4", ""}, sz \in ProviderFileSizes}

CallbackValues == {"unset", "returns", "raises"}

\* callbacks set directly on a provider
ProviderCallbacks(started, completed, failed) ==
    [started |-> started, completed |-> completed, failed |-> failed, user_completed |-> "unset"]

InitProvider ==
    /\ provider_type \in ProviderType
    /\ fallback_provider_type = <<>>
    /\ installed = AllInstalled
    /\ ctor = NoCtor
    /\ AuxInit
    /\ last_error = <<>>
    /\ last_result = <<>>
    /\ last_transcription = <<>>
    /\ pc = "idle"
    /\ call = NoCall
    /\ hist = NoHist

\* a caller calls transcribe_file of the provider; the vendor's answer is
\* drawn only when the vendor is called
ProviderCall(f, model, started, completed, failed) ==
    /\ pc = "idle"
    /\ LET pcb == ProviderCallbacks(started, completed, failed)
           try(vo) == ProviderTranscribe(provider_type, "P", pcb, f, model, DefaultOptions, vo, Session)
           rs == Bind(try(NoOutcome), LAMBDA r0 :
                    IF ~VendorCalled(r0.st.log, "P")
                    THEN {r0}
                    ELSE {try(vo) : vo \in VendorOutcomes(provider_type, VendorMsgs)})
       IN \E r \in rs :
            /\ StoreSession(r.st)
            /\ hist' = [NoHist EXCEPT !.log = r.st.log, !.pouts = <<OutKind(r)>>,
                                      !.result = r.result, !.escaped = r.exc]
    /\ call' = [NoCall EXCEPT !.op = "provider.transcribe_file", !.file = f, !.model = model,
                              !.cb = Callbacks(started, completed, failed)]
    /\ pc' = "done"
    /\ UNCHANGED config_vars

\* one provider and its callers
NextProvider ==
    \/ \E f \in ProviderFiles, model \in Models, started \in CallbackValues, completed \in CallbackValues, failed \in CallbackValues : ProviderCall(f, model, started, completed, failed)
    \/ Return

SpecProvider == InitProvider /\ [][NextProvider]_vars

-----------------------------------------------------------------------------
(* A facade from its construction on: TranscriptionService.__init__ in an  *)
(* environment where a vendor library may be missing, then direct calls.   *)

\* one vendor library at most is missing or broken
LibStates ==
    {AllInstalled} \cup {[AllInstalled EXCEPT ![p] = o] : p \in ProviderType, o \in {"absent", "broken"}}

\* the environments a facade is constructed in
ServiceLibStates ==
    {AllInstalled, [AllInstalled EXCEPT !["groq"] = "absent"],
     [AllInstalled EXCEPT !["deepgram"] = "absent"], [AllInstalled EXCEPT !["deepgram"] = "broken"]}

\* api_key arguments: empty, an API key, the path of an existing credentials file
ApiKeys == {"", "sk-key", "creds.json"}

\* before any facade exists
InitService ==
    /\ installed \in ServiceLibStates
    /\ provider_type = "groq"
    /\ fallback_provider_type = <<>>
    /\ last_error = <<>>
    /\ last_result = <<>>
    /\ last_transcription = <<>>
    /\ ctor = NoCtor
    /\ AuxInit
    /\ pc = "new"
    /\ call = NoCall
    /\ hist = NoHist

\* TranscriptionService(api_key, provider_type, fallback_api_key, fallback_provider_type)
Construct(api_key, ptype, fallback_api_key, fallback_type) ==
    /\ pc = "new"
    /\ LET r == ServiceInit(api_key, ptype, fallback_api_key, fallback_type, installed)
       IN /\ ctor' = Ctor(api_key, ptype, fallback_api_key, fallback_type, r.raised, r.fallback_failed)
          /\ IF r.raised # <<>>
             THEN /\ pc' = "failed"
                  /\ UNCHANGED <<provider_type, fallback_provider_type>>
             ELSE /\ pc' = "idle"
                  /\ provider_type' = r.provider
                  /\ fallback_provider_type' = r.fallback
    /\ UNCHANGED <<facade_vars, installed, aux_vars, call, hist>>

\* the requests made to a facade that was constructed here
ServiceFiles == {File(TRUE, ".wav", MB)}
ServiceCallbackConfigs == {Callbacks("unset", "unset", "unset"), Callbacks("returns", "returns", "returns")}

NextService ==
    \/ \E k \in ApiKeys, pt \in {<<>>, <<"deepgram">>}, fk \in {<<>>, <<"">>, <<"sk-key">>}, ft \in {<<>>, <<"groq">>, <<"deepgram">>, <<"google_cloud">>} : Construct(k, pt, fk, ft)
    \/ \E f \in ServiceFiles, cb \in ServiceCallbackConfigs : TranscribeFile(f, <<>>, DefaultOptions, cb)
    \/ Return

SpecService == InitService /\ [][NextService]_vars

-----------------------------------------------------------------------------
(* The provider registry used on its own *)

Identities == ProviderType \cup {"none"}

\* the registries tried: while the provider modules are being imported, once
\* all are, and with a class registered again under another identity
RegistryStates ==
    {RegistryAfter(n) : n \in 0..Len(ImportOrder)}
    \cup {register(ImportedRegistry, "groq", "OpenAIProvider")}

InitRegistry ==
    /\ installed \in LibStates
    /\ registry \in RegistryStates
    /\ OtherInit
    /\ provider_type = "groq"
    /\ fallback_provider_type = <<>>
    /\ last_error = <<>>
    /\ last_result = <<>>
    /\ last_transcription = <<>>
    /\ ctor = NoCtor
    /\ pc = "idle"
    /\ call = NoCall
    /\ hist = NoHist

\* a caller asks ProviderRegistry.is_provider_available(identity)
IsProviderAvailable(identity) ==
    /\ pc = "idle"
    /\ LET r == is_provider_available(identity, installed)
       IN hist' = [NoHist EXCEPT !.result = r.ret, !.escaped = r.raised]
    /\ call' = [NoCall EXCEPT !.op = "is_provider_available", !.identity = identity]
    /\ pc' = "done"
    /\ UNCHANGED <<config_vars, facade_vars>>

\* a caller asks ProviderRegistry.create_provider(identity, credential)
CreateProvider(identity, api_key) ==
    /\ pc = "idle"
    /\ LET r == create_provider(identity, api_key, installed)
       IN hist' = [NoHist EXCEPT !.result = IF r = <<>> THEN get_provider_class(identity) ELSE <<>>,
                                 !.escaped = r]
    /\ call' = [NoCall EXCEPT !.op = "create_provider", !.identity = identity, !.api_key = api_key]
    /\ pc' = "done"
    /\ UNCHANGED <<config_vars, facade_vars>>

\* a caller asks ProviderRegistry.get_installed_providers()
GetInstalledProviders ==
    /\ pc = "idle"
    /\ LET r == get_installed_providers(installed)
       IN hist' = [NoHist EXCEPT !.result = r.ret, !.escaped = r.raised]
    /\ call' = [NoCall EXCEPT !.op = "get_installed_providers"]
    /\ pc' = "done"
    /\ UNCHANGED <<config_vars, facade_vars>>

NextRegistry ==
    \/ \E id \in Identities : IsProviderAvailable(id)
    \/ \E id \in ProviderType, k \in ApiKeys : CreateProvider(id, k)
    \/ GetInstalledProviders
    \/ Return

SpecRegistry == InitRegistry /\ [][NextRegistry]_vars

-----------------------------------------------------------------------------
(* TranscriptionCache used on its own (SpecCache) *)

\* the longest run of cache operations followed
MaxClock == 6

Has(list, x) == \E i \in 1..Len(list) : list[i] = x

\* list.remove(x): the list without the first occurrence of x
RECURSIVE remove(_, _)
remove(list, x) ==
    IF list = <<>> THEN <<>>
    ELSE IF Head(list) = x THEN Tail(list)
    ELSE <<Head(list)>> \o remove(Tail(list), x)

\* d[key] = value
SetItem(d, key, value) == [k \in DOMAIN d \cup {key} |-> IF k = key THEN value ELSE d[k]]

\* del d[key]
DelItem(d, key) == [k \in DOMAIN d \ {key} |-> d[k]]

CacheResult(c, order, ret, raised) == [cache |-> c, access_order |-> order, ret |-> ret, raised |-> raised]

\* TranscriptionCache.get(key)
get(c, order, key) ==
    IF key \in DOMAIN c
    THEN IF ~Has(order, key)
         THEN CacheResult(c, order, <<>>, "ValueError")
         ELSE CacheResult(c, Append(remove(order, key), key), <<c[key]>>, "")
    ELSE CacheResult(c, order, <<>>, "")

\* TranscriptionCache.put(key, value) that never evicts
put_NoEviction(c, order, msize, key, value) ==
    IF key \in DOMAIN c
    THEN CacheResult(SetItem(c, key, value), Append(remove(order, key), key), <<>>, "")
    ELSE CacheResult(SetItem(c, key, value), Append(order, key), <<>>, "")

\* TranscriptionCache.put(key, value)
put(c, order, msize, key, value) ==
    IF key \in DOMAIN c
    THEN IF ~Has(order, key)
         THEN CacheResult(SetItem(c, key, value), order, <<>>, "ValueError")
         ELSE CacheResult(SetItem(c, key, value), Append(remove(order, key), key), <<>>, "")
    ELSE IF Cardinality(DOMAIN c) >= msize
         THEN IF order = <<>>
              THEN CacheResult(c, order, <<>>, "IndexError")
              ELSE LET lru_key == Head(order)
                   IN IF lru_key \notin DOMAIN c
                      THEN CacheResult(c, Tail(order), <<>>, "KeyError")
                      ELSE CacheResult(SetItem(DelItem(c, lru_key), key, value),
                                       Append(Tail(order), key), <<>>, "")
         ELSE CacheResult(SetItem(c, key, value), Append(order, key), <<>>, "")

\* TranscriptionCache.clear()
clear(c, order) == CacheResult(EmptyDict, <<>>, <<>>, "")

\* TranscriptionCache.size()
size == Cardinality(DOMAIN cache)

Keys == {"k1", "k2", "k3"}
CacheValues == {"a", "b"}
CacheSizes == {0, 1, 2}

\* the operation just made on the cache
CacheCall(op, key, value, r) == [op |-> op, key |-> key, value |-> value, ret |-> r.ret, raised |-> r.raised]

\* what the callers of the cache have done so far: the number of operations,
\* the value of the latest put of each key, the time of the latest get-hit
\* or put of each key
CacheHist(clock, last_put, last_use) == [clock |-> clock, last_put |-> last_put, last_use |-> last_use]

InitCache ==
    /\ provider_type = "groq"
    /\ fallback_provider_type = <<>>
    /\ installed = AllInstalled
    /\ ctor = NoCtor
    /\ registry = ImportedRegistry
    /\ last_error = <<>>
    /\ last_result = <<>>
    /\ last_transcription = <<>>
    /\ cache = EmptyDict
    /\ access_order = <<>>
    /\ max_size \in CacheSizes
    /\ HistoryInit
    /\ InstancesInit
    /\ twin = NoTwin
    /\ AppInit
    /\ pc = "idle"
    /\ call = [op |-> "", key |-> "", value |-> "", ret |-> <<>>, raised |-> ""]
    /\ hist = CacheHist(0, [k \in Keys |-> <<>>], [k \in Keys |-> 0])

CacheStep(r) ==
    /\ cache' = r.cache
    /\ access_order' = r.access_order
    /\ UNCHANGED <<max_size, provider_type, fallback_provider_type, installed, ctor, registry,
                   history_vars, instance_vars, twin, app_vars, facade_vars, pc>>

CacheGet(key) ==
    /\ hist.clock < MaxClock
    /\ LET r == get(cache, access_order, key)
       IN /\ CacheStep(r)
          /\ call' = CacheCall("get", key, "", r)
          /\ hist' = CacheHist(hist.clock + 1, hist.last_put,
                               IF r.ret # <<>> THEN [hist.last_use EXCEPT ![key] = hist.clock + 1]
                               ELSE hist.last_use)

CachePut(key, value) ==
    /\ hist.clock < MaxClock
    /\ LET r == put(cache, access_order, max_size, key, value)
       IN /\ CacheStep(r)
          /\ call' = CacheCall("put", key, value, r)
          /\ hist' = IF r.raised # "" THEN [hist EXCEPT !.clock = hist.clock + 1]
                     ELSE CacheHist(hist.clock + 1, [hist.last_put EXCEPT ![key] = <<value>>],
                                    [hist.last_use EXCEPT ![key] = hist.clock + 1])

CacheClear ==
    /\ hist.clock < MaxClock
    /\ LET r == clear(cache, access_order)
       IN /\ CacheStep(r)
          /\ call' = CacheCall("clear", "", "", r)
          /\ hist' = [hist EXCEPT !.clock = hist.clock + 1]

NextCache ==
    \/ \E k \in Keys : CacheGet(k)
    \/ \E k \in Keys, v \in CacheValues : CachePut(k, v)
    \/ CacheClear

SpecCache == InitCache /\ [][NextCache]_vars

-----------------------------------------------------------------------------
(* ClipboardHistory and the settings handler that resizes it (SpecHistory) *)

HistoryTexts == {"hello", "hi"}
TextLength == [hello |-> 5, hi |-> 2]

\* the sizes the history is configured with
HistorySizes == {1, 2, 3}

\* list.pop(i), 0-based: the list without its element at index i
pop(list, i) == [j \in 1..(Len(list) - 1) |-> IF j <= i THEN list[j] ELSE list[j + 1]]

\* the item add_item builds
HistoryItem(text, timestamp) == [text |-> text, timestamp |-> timestamp, length |-> TextLength[text]]

\* ClipboardHistory.add_item(text, timestamp): the history after the call
add_item(h, mitems, text, timestamp) ==
    LET appended == Append(h, HistoryItem(text, timestamp))
    IN IF Len(appended) > mitems THEN pop(appended, 0) ELSE appended

\* ClipboardHistory.remove_item(index)
remove_item(h, index) ==
    IF 0 <= index /\ index < Len(h)
    THEN [history |-> pop(h, index), ret |-> TRUE]
    ELSE [history |-> h, ret |-> FALSE]

\* ClipboardHistory.clear_history()
clear_history(h) == <<>>

HistoryCall(op, arg, ret) == [op |-> op, arg |-> arg, ret |-> ret]

\* the application starts: ClipboardHistory(max_items=config.history.max_items)
InitHistory ==
    /\ provider_type = "groq"
    /\ fallback_provider_type = <<>>
    /\ installed = AllInstalled
    /\ ctor = NoCtor
    /\ registry = ImportedRegistry
    /\ last_error = <<>>
    /\ last_result = <<>>
    /\ last_transcription = <<>>
    /\ CacheInit
    /\ InstancesInit
    /\ twin = NoTwin
    /\ AppInit
    /\ history = <<>>
    /\ max_items \in HistorySizes
    /\ pc = "idle"
    /\ call = HistoryCall("", <<>>, <<>>)
    /\ hist = [clock |-> 0]

HistoryFrame == UNCHANGED <<provider_type, fallback_provider_type, installed, ctor, registry,
                            cache_vars, instance_vars, twin, app_vars, facade_vars, pc>>

\* a transcription was copied: clipboard_history.add_item(transcription, time.time())
AddItem(text) ==
    /\ hist.clock < MaxClock
    /\ history' = add_item(history, max_items, text, hist.clock + 1)
    /\ call' = HistoryCall("add_item", <<text>>, <<>>)
    /\ hist' = [clock |-> hist.clock + 1]
    /\ UNCHANGED max_items
    /\ HistoryFrame

RemoveItem(index) ==
    /\ hist.clock < MaxClock
    /\ LET r == remove_item(history, index)
       IN /\ history' = r.history
          /\ call' = HistoryCall("remove_item", <<index>>, <<r.ret>>)
    /\ hist' = [clock |-> hist.clock + 1]
    /\ UNCHANGED max_items
    /\ HistoryFrame

ClearHistory ==
    /\ hist.clock < MaxClock
    /\ history' = clear_history(history)
    /\ call' = HistoryCall("clear_history", <<>>, <<>>)
    /\ hist' = [clock |-> hist.clock + 1]
    /\ UNCHANGED max_items
    /\ HistoryFrame

\* TranscripterApp.on_settings_changed with config.history.max_items = n: the
\* history keeps its entries and gets the new bound. The configured provider
\* is the one in use, so the facade built anew equals the one it replaces.
OnSettingsChanged(n) ==
    /\ hist.clock < MaxClock
    /\ max_items' = n
    /\ call' = HistoryCall("on_settings_changed", <<n>>, <<>>)
    /\ hist' = [clock |-> hist.clock + 1]
    /\ last_error' = <<>>
    /\ last_result' = <<>>
    /\ last_transcription' = <<>>
    /\ UNCHANGED <<history, provider_type, fallback_provider_type, installed, ctor, registry,
                   cache_vars, instance_vars, twin, app_vars, pc>>

NextHistory ==
    \/ \E t \in HistoryTexts : AddItem(t)
    \/ \E i \in -1..3 : RemoveItem(i)
    \/ ClearHistory
    \/ \E n \in HistorySizes : OnSettingsChanged(n)

SpecHistory == InitHistory /\ [][NextHistory]_vars

-----------------------------------------------------------------------------
(* Provider objects side by side (SpecInstances) *)

\* credentials handed to the constructors
InstanceKeys == {"", "sk-key", "sk-other", "creds.json"}

\* the fields of a provider object: _api_key, and the credential its vendor
\* client object was built with (<<>> for AssemblyAI, whose _aai is the
\* assemblyai module itself and holds no credential of the object's own)
Instance(p, api_key) ==
    [type |-> p, _api_key |-> api_key, client |-> IF p = "assemblyai" THEN <<>> ELSE <<api_key>>]

\* <Provider>(api_key): the object built (<<>> when the constructor raises)
\* and assemblyai.settings.api_key afterwards
NewInstance(p, api_key, libs, settings) ==
    IF ProviderInit(p, api_key, libs) # <<>>
    THEN [object |-> <<>>, settings |-> settings]
    ELSE [object |-> <<Instance(p, api_key)>>,
          settings |-> IF p = "assemblyai" THEN <<api_key>> ELSE settings]

\* the credential the vendor call made by transcribe_file of this object
\* carries: the one in its client, or for AssemblyAI, whose Transcriber is
\* built from the module with a config only, the module's settings
VendorCredential(object, settings) ==
    IF object.type = "assemblyai" THEN settings ELSE object.client

InitInstances ==
    /\ provider_type = "groq"
    /\ fallback_provider_type = <<>>
    /\ installed = AllInstalled
    /\ ctor = NoCtor
    /\ registry = ImportedRegistry
    /\ last_error = <<>>
    /\ last_result = <<>>
    /\ last_transcription = <<>>
    /\ CacheInit
    /\ HistoryInit
    /\ InstancesInit
    /\ twin = NoTwin
    /\ AppInit
    /\ pc = "idle"
    /\ call = [op |-> "", slot |-> 0, credential |-> <<>>]
    /\ hist = NoHist

InstancesFrame == UNCHANGED <<provider_type, fallback_provider_type, installed, ctor, registry,
                              cache_vars, history_vars, twin, app_vars, facade_vars, pc, hist>>

\* the holder s builds a provider object
NewProvider(s, p, api_key) ==
    /\ LET r == NewInstance(p, api_key, installed, aai_settings)
       IN /\ instances' = IF r.object = <<>> THEN instances ELSE [instances EXCEPT ![s] = r.object]
          /\ aai_settings' = r.settings
    /\ call' = [op |-> "__init__", slot |-> s, credential |-> <<>>]
    /\ InstancesFrame

\* the holder s calls transcribe_file of its provider object, which calls
\* the vendor
UseProvider(s) ==
    /\ instances[s] # <<>>
    /\ call' = [op |-> "transcribe_file", slot |-> s,
                credential |-> VendorCredential(instances[s][1], aai_settings)]
    /\ UNCHANGED instance_vars
    /\ InstancesFrame

NextInstances ==
    \/ \E s \in Slots, p \in ProviderType, k \in InstanceKeys : NewProvider(s, p, k)
    \/ \E s \in Slots : UseProvider(s)

SpecInstances == InitInstances /\ [][NextInstances]_vars

-----------------------------------------------------------------------------
(* Two facades of the same configuration given the same calls (SpecTwins) *)

\* what an earlier call can have left in last_error: nothing, or the message
\* of a RateLimitError of the primary provider
EarlierErrors(p) == {<<>>, <<RateLimitError(p).msg>>}

TwinSession == [last_error |-> twin.last_error, last_result |-> twin.last_result,
                last_transcription |-> twin.last_transcription, log |-> <<>>]

InitTwins ==
    /\ provider_type \in FacadeProviders
    /\ fallback_provider_type \in {<<>>, <<"groq">>}
    /\ installed = AllInstalled
    /\ ctor = NoCtor
    /\ registry = ImportedRegistry
    /\ CacheInit
    /\ HistoryInit
    /\ InstancesInit
    /\ last_error \in EarlierErrors(provider_type)
    /\ last_result = <<>>
    /\ last_transcription = <<>>
    /\ twin \in {Twin(e, "idle", 0, <<>>, <<>>, <<>>) : e \in EarlierErrors(provider_type)}
    /\ AppInit
    /\ pc = "idle"
    /\ call = NoCall
    /\ hist = NoHist

TwinsFrame == UNCHANGED <<provider_type, fallback_provider_type, installed, ctor, registry,
                          cache_vars, history_vars, instance_vars, app_vars>>

\* both callers call transcribe_file_with_retry with the same arguments
TwinsBegin(f, max_retries, retry_delay) ==
    /\ pc = "idle"
    /\ twin.pc = "idle"
    /\ call' = [NoCall EXCEPT !.op = "transcribe_file_with_retry", !.file = f,
                              !.max_retries = max_retries, !.retry_delay = retry_delay]
    /\ hist' = NoHist
    /\ pc' = IF max_retries = 0 THEN "done" ELSE "loop"
    /\ twin' = [twin EXCEPT !.pc = IF max_retries = 0 THEN "done" ELSE "loop"]
    /\ UNCHANGED facade_vars
    /\ TwinsFrame

\* one pass of the loop body on the first facade, the vendors answering vp, vf
FirstPass(vp, vf) ==
    LET o == transcribe_file(provider_type, fallback_provider_type, call.cb, call.file, call.model, call.opts, vp, vf, Session)
        d == LoopDecision(o, call.attempt, call.max_retries)
        h == [hist EXCEPT !.log = o.st.log, !.pouts = Append(@, o.pout), !.fouts = Append(@, o.fout)]
    IN /\ StoreSession(o.st)
       /\ IF d = "sleep"
          THEN /\ hist' = [h EXCEPT !.sleeps = Append(@, BackoffDelay(call.retry_delay, call.attempt))]
               /\ call' = [call EXCEPT !.attempt = @ + 1]
               /\ pc' = "loop"
          ELSE /\ hist' = [h EXCEPT !.ret = IF d = "return" THEN o.ret ELSE <<>>]
               /\ call' = call
               /\ pc' = "done"

\* the same pass on the second facade
SecondPass(vp, vf) ==
    LET o == transcribe_file(provider_type, fallback_provider_type, call.cb, call.file, call.model, call.opts, vp, vf, TwinSession)
        d == LoopDecision(o, twin.attempt, call.max_retries)
        t == [twin EXCEPT !.last_error = o.st.last_error, !.last_result = o.st.last_result,
                          !.last_transcription = o.st.last_transcription,
                          !.pouts = Append(@, o.pout)]
    IN twin' = IF d = "sleep"
               THEN [t EXCEPT !.sleeps = Append(@, BackoffDelay(call.retry_delay, twin.attempt)),
                              !.attempt = @ + 1]
               ELSE [t EXCEPT !.ret = IF d = "return" THEN o.ret ELSE <<>>, !.pc = "done"]

\* each facade still in its loop makes its next pass; both vendors give both
\* facades the same answer
TwinsAttempt ==
    /\ pc = "loop" \/ twin.pc = "loop"
    /\ \E vp \in VendorOutcomes(provider_type, FacadeVendorMsgs),
          vf \in (IF fallback_provider_type = <<>> THEN {NoOutcome}
                  ELSE VendorOutcomes(fallback_provider_type[1], FacadeVendorMsgs)) :
         /\ IF pc = "loop" THEN FirstPass(vp, vf) ELSE UNCHANGED <<facade_vars, pc, call, hist>>
         /\ IF twin.pc = "loop" THEN SecondPass(vp, vf) ELSE UNCHANGED twin
    /\ TwinsFrame

NextTwins ==
    \/ \E f \in FacadeFiles, n \in RetryCounts, d \in RetryDelays : TwinsBegin(f, n, d)
    \/ TwinsAttempt

SpecTwins == InitTwins /\ [][NextTwins]_vars

-----------------------------------------------------------------------------
(* The application: recordings, the temporary file and the transcription   *)
(* worker threads (SpecApp). What a worker's transcribe_file_with_retry    *)
(* does to the facade is followed in Spec; here a worker enters the call   *)
(* and returns from it with or without a text.                             *)

\* the audio chunks followed per recording
MaxChunks == 2

\* AudioRecorder.start_recording: the recorder afterwards and the value returned
AudioRecorder_start_recording(rec, n) ==
    IF rec.is_recording
    THEN [recorder |-> rec, ret |-> FALSE]
    ELSE [recorder |-> Recorder(TRUE, <<>>, n), ret |-> TRUE]

\* AudioRecorder.stop_recording: the recorder afterwards and the audio
\* returned (<<>> is None)
AudioRecorder_stop_recording(rec) ==
    IF ~rec.is_recording
    THEN [recorder |-> rec, ret |-> <<>>]
    ELSE [recorder |-> [rec EXCEPT !.is_recording = FALSE],
          ret |-> IF rec.audio_data # <<>> THEN <<rec.audio_data>> ELSE <<>>]

AppCall(op, outcome) == [op |-> op, outcome |-> outcome]

InitApp ==
    /\ provider_type = "groq"
    /\ fallback_provider_type = <<>>
    /\ installed = AllInstalled
    /\ ctor = NoCtor
    /\ registry = ImportedRegistry
    /\ last_error = <<>>
    /\ last_result = <<>>
    /\ last_transcription = <<>>
    /\ CacheInit
    /\ HistoryInit
    /\ InstancesInit
    /\ twin = NoTwin
    /\ AppInit
    /\ pc = "idle"
    /\ call = AppCall("", "")
    /\ hist = [started |-> 0]

AppFrame == UNCHANGED <<provider_type, fallback_provider_type, installed, ctor, registry,
                        cache_vars, instance_vars, twin, facade_vars, max_items>>

\* TranscripterApp.start_recording
start_recording ==
    IF is_recording
    THEN /\ call' = AppCall("start_recording", "already recording")
         /\ UNCHANGED <<app_vars, hist>>
    ELSE /\ hist.started < MaxRecordings
         /\ LET r == AudioRecorder_start_recording(recorder, hist.started + 1)
            IN /\ recorder' = r.recorder
               /\ is_recording' = r.ret
               /\ hist' = [hist EXCEPT !.started = IF r.ret THEN @ + 1 ELSE @]
               /\ call' = AppCall("start_recording", IF r.ret THEN "started" ELSE "refused")
         /\ UNCHANGED <<temp_file, workers>>

\* TranscripterApp.stop_recording: the audio is saved to temp_audio_file and
\* a _process_transcription thread is started
stop_recording ==
    IF ~is_recording
    THEN /\ call' = AppCall("stop_recording", "not recording")
         /\ UNCHANGED <<app_vars, hist>>
    ELSE /\ LET r == AudioRecorder_stop_recording(recorder)
            IN /\ recorder' = r.recorder
               /\ is_recording' = FALSE
               /\ IF r.ret = <<>>
                  THEN /\ call' = AppCall("stop_recording", "No audio data recorded")
                       /\ UNCHANGED <<temp_file, workers>>
                  ELSE /\ temp_file' = <<recorder.current>>
                       /\ workers' = [workers EXCEPT ![recorder.current] = "spawned"]
                       /\ call' = AppCall("stop_recording", "processing")
         /\ UNCHANGED hist

\* the tray menu starts a recording
StartRecording ==
    /\ pc = "idle"
    /\ start_recording
    /\ UNCHANGED <<pc, history>>
    /\ AppFrame

\* the tray menu stops the recording
StopRecording ==
    /\ pc = "idle"
    /\ stop_recording
    /\ UNCHANGED <<pc, history>>
    /\ AppFrame

\* the hotkey: TranscripterApp.toggle_recording
ToggleRecording ==
    /\ pc = "idle"
    /\ IF is_recording THEN stop_recording ELSE start_recording
    /\ UNCHANGED <<pc, history>>
    /\ AppFrame

\* AudioRecorder._audio_callback: a chunk is stored; when max_duration has
\* elapsed the recorder stops itself and the audio returned is dropped
AudioCallback(elapsed) ==
    /\ recorder.is_recording
    /\ Len(recorder.audio_data) < MaxChunks
    /\ LET stored == [recorder EXCEPT !.audio_data = Append(@, recorder.current)]
       IN recorder' = IF elapsed THEN AudioRecorder_stop_recording(stored).recorder ELSE stored
    /\ call' = AppCall("_audio_callback", IF elapsed THEN "max_duration" ELSE "")
    /\ UNCHANGED <<is_recording, temp_file, workers, pc, hist, history>>
    /\ AppFrame

\* AudioRecorder._record_audio: the input stream fails
StreamError ==
    /\ recorder.is_recording
    /\ recorder' = [recorder EXCEPT !.is_recording = FALSE]
    /\ call' = AppCall("_record_audio", "error")
    /\ UNCHANGED <<is_recording, temp_file, workers, pc, hist, history>>
    /\ AppFrame

\* _process_transcription of the thread started for recording w calls
\* transcription_service.transcribe_file_with_retry(file_path=temp_audio_file)
WorkerEnter(w) ==
    /\ workers[w] = "spawned"
    /\ workers' = [workers EXCEPT ![w] = "transcribing"]
    /\ call' = AppCall("_process_transcription", "enter")
    /\ UNCHANGED <<is_recording, recorder, temp_file, pc, hist, history>>
    /\ AppFrame

\* transcribe_file_with_retry returns to the thread, with a text or None
WorkerReturn(w, text) ==
    /\ workers[w] = "transcribing"
    /\ workers' = [workers EXCEPT ![w] = IF text THEN "got text" ELSE "got None"]
    /\ call' = AppCall("_process_transcription", "returned")
    /\ UNCHANGED <<is_recording, recorder, temp_file, pc, hist, history>>
    /\ AppFrame

\* the rest of _process_transcription: the temporary file is removed if it
\* exists, a text is added to the history
WorkerFinish(w) ==
    /\ workers[w] \in {"got text", "got None"}
    /\ temp_file' = <<>>
    /\ history' = IF workers[w] = "got text" THEN add_item(history, max_items, "hello", w) ELSE history
    /\ workers' = [workers EXCEPT ![w] = "done"]
    /\ call' = AppCall("_process_transcription", "finished")
    /\ UNCHANGED <<is_recording, recorder, pc, hist>>
    /\ AppFrame

\* TranscripterApp.quit: the recorder is stopped, the temporary file removed
Quit ==
    /\ pc = "idle"
    /\ pc' = "quit"
    /\ recorder' = IF is_recording THEN AudioRecorder_stop_recording(recorder).recorder ELSE recorder
    /\ temp_file' = <<>>
    /\ call' = AppCall("quit", "")
    /\ UNCHANGED <<is_recording, workers, hist, history>>
    /\ AppFrame

NextApp ==
    \/ StartRecording
    \/ StopRecording
    \/ ToggleRecording
    \/ \E elapsed \in BOOLEAN : AudioCallback(elapsed)
    \/ StreamError
    \/ \E w \in Recordings : WorkerEnter(w)
    \/ \E w \in Recordings, text \in BOOLEAN : WorkerReturn(w, text)
    \/ \E w \in Recordings : WorkerFinish(w)
    \/ Quit

SpecApp == InitApp /\ [][NextApp]_vars

-----------------------------------------------------------------------------
(* Properties *)

Last(q) == q[Len(q)]

\* events of the log
Logged(ev, who) == \E i \in 1..Len(hist.log) : hist.log[i].ev = ev /\ hist.log[i].who = who
LoggedMsg(ev, who, msg) == \E i \in 1..Len(hist.log) : hist.log[i].ev = ev /\ hist.log[i].who = who /\ hist.log[i].msg = msg

ErrorTypes == {"TranscriptionError", "APIKeyError", "RateLimitError", "RuntimeError"}

\* a transcribe_file call of the facade has ended (a direct call, or the
\* latest pass of the retry loop)
AttemptMade == call.op \in {"transcribe_file", "transcribe_file_with_retry"} /\ Len(hist.pouts) > 0

DirectCallDone == pc = "done" /\ call.op = "transcribe_file"
RetryCallDone == pc = "done" /\ call.op = "transcribe_file_with_retry"
ProviderCallDone == pc = "done" /\ call.op = "provider.transcribe_file"

\* C1: when the primary provider raises APIKeyError and a fallback is
\* configured, the fallback's transcribe_file is not entered, the call returns
\* None (a retry loop ends there) and last_error is the primary's message
C1_AuthErrorBypassesFallback ==
    (AttemptMade /\ Last(hist.pouts) = "APIKeyError" /\ fallback_provider_type # <<>>)
        => /\ Last(hist.fouts) = "not_called"
           /\ ~Logged("enter", "F")
           /\ ~Logged("vendor_call", "F")
           /\ pc = "done"
           /\ hist.ret = <<>>
           /\ hist.escaped = <<>>
           /\ last_error = <<APIKeyError(provider_type).msg>>

C1_Witness ==
    /\ DirectCallDone
    /\ Last(hist.pouts) = "APIKeyError"
    /\ fallback_provider_type # <<>>
    /\ _validate_file(fallback_provider_type[1], call.file) = <<>>

\* C2: when the primary raises a generic TranscriptionError and the fallback
\* completes with text t, transcribe_file returns t, last_error is None and
\* last_transcription is t
C2_FallbackSuccessClearsError ==
    (DirectCallDone /\ Last(hist.pouts) = "TranscriptionError" /\ Logged("_notify_completed", "F") /\ Last(hist.fouts) = "result")
        => /\ hist.escaped = <<>>
           /\ hist.ret # <<>>
           /\ LoggedMsg("_notify_completed", "F", hist.ret)
           /\ last_error = <<>>
           /\ last_transcription = hist.ret
           /\ last_result # <<>>
           /\ last_result[1].text = hist.ret[1]
           /\ last_result[1].provider = fallback_provider_type[1]

C2_Witness ==
    /\ DirectCallDone
    /\ Last(hist.pouts) = "TranscriptionError"
    /\ Last(hist.fouts) = "result"
    /\ hist.ret = <<"hello">>
    /\ last_error = <<>>

\* C3: with no fallback and a primary that raises RateLimitError on every
\* call, transcribe_file_with_retry(max_retries = n >= 1, retry_delay = d)
\* calls the primary n times, sleeps d*1, ..., d*(n-1) and returns None;
\* while the loop runs, pass number k has slept d*1, ..., d*k
C3_RateLimitRetrySchedule ==
    (call.op = "transcribe_file_with_retry" /\ fallback_provider_type = <<>> /\ call.max_retries >= 1
     /\ \A i \in 1..Len(hist.pouts) : hist.pouts[i] = "RateLimitError")
        => /\ pc = "loop" =>
                /\ Len(hist.pouts) = call.attempt
                /\ call.attempt < call.max_retries
                /\ hist.sleeps = [i \in 1..call.attempt |-> call.retry_delay * i]
           /\ pc = "done" =>
                /\ Len(hist.pouts) = call.max_retries
                /\ hist.sleeps = [i \in 1..(call.max_retries - 1) |-> call.retry_delay * i]
                /\ hist.ret = <<>>
                /\ hist.escaped = <<>>

C3_Witness ==
    /\ RetryCallDone
    /\ fallback_provider_type = <<>>
    /\ call.max_retries = 3
    /\ call.retry_delay = 1
    /\ hist.pouts = <<"RateLimitError", "RateLimitError", "RateLimitError">>
    /\ hist.sleeps = <<1, 2>>

\* C4: in transcribe_file_with_retry (callbacks that do not raise) another
\* pass is made only when last_error contains "rate limit", and never after a
\* pass whose request file failed the primary's validation
C4_RetryOnlyOnRateLimit ==
    (call.op = "transcribe_file_with_retry" /\ call.cb.failed # "raises" /\ pc = "loop" /\ call.attempt > 0)
        => /\ IsRateLimitMessage(last_error)
           /\ Last(hist.pouts) # "None"

\* C5: no exception leaves transcribe_file or transcribe_file_with_retry
C5_NoExceptionEscapes ==
    (pc = "done" /\ call.op \in {"transcribe_file", "transcribe_file_with_retry"})
        => hist.escaped = <<>>

\* C6: when transcribe_file, or transcribe_file_with_retry with
\* max_retries >= 1, returns None, last_error is not None
C6_NullReturnHasError ==
    (pc = "done" /\ hist.escaped = <<>> /\ hist.ret = <<>>
     /\ (call.op = "transcribe_file" \/ (call.op = "transcribe_file_with_retry" /\ call.max_retries >= 1)))
        => last_error # <<>>

\* C7: in transcribe_file_with_retry (max_retries >= 1, callbacks that do not
\* raise) on a file that fails the primary's validation, the primary is
\* entered once, the fallback never, and there is no sleep
C7_PreconditionFailureNotRetried ==
    (call.op = "transcribe_file_with_retry" /\ call.cb.failed # "raises" /\ call.max_retries >= 1
     /\ _validate_file(provider_type, call.file) # <<>>)
        => /\ Len(hist.pouts) <= 1
           /\ hist.sleeps = <<>>
           /\ ~Logged("enter", "F")
           /\ pc = "done" => Len(hist.pouts) = 1

\* C10: in transcribe_file_with_retry (callbacks that do not raise), when the
\* primary raises RateLimitError and a fallback is configured, the fallback is
\* attempted, and if it fails with an error the loop ends only when no
\* attempts remain
C10_RateLimitContinuesLoop ==
    (call.op = "transcribe_file_with_retry" /\ call.cb.failed # "raises" /\ AttemptMade
     /\ Last(hist.pouts) = "RateLimitError" /\ fallback_provider_type # <<>>)
        => /\ Last(hist.fouts) # "not_called"
           /\ (pc = "done" /\ Last(hist.fouts) \in ErrorTypes) => Len(hist.pouts) = call.max_retries

\* positions in the log of the entries into a provider's transcribe_file
Entries(who) == {i \in 1..Len(hist.log) : hist.log[i].ev = "enter" /\ hist.log[i].who = who}

\* C11: within one transcribe_file call of the facade the primary's
\* transcribe_file is entered exactly once and before anything else; the
\* fallback's is entered at most once, only after the primary has raised a
\* recoverable TranscriptionError (generic or rate limit), and nothing of the
\* primary happens after it
C11_ProviderCallOrder ==
    AttemptMade
        => /\ Entries("P") = {1}
           /\ Cardinality(Entries("F")) <= 1
           /\ Last(hist.fouts) = "not_called" <=> Entries("F") = {}
           /\ Entries("F") # {} =>
                /\ Last(hist.pouts) \in {"TranscriptionError", "RateLimitError"}
                /\ fallback_provider_type # <<>>
                /\ \A i \in Entries("F") : \A j \in i..Len(hist.log) : hist.log[j].who # "P"

C11_Witness ==
    /\ DirectCallDone
    /\ Last(hist.pouts) = "RateLimitError"
    /\ Last(hist.fouts) = "TranscriptionError"
    /\ Cardinality(Entries("F")) = 1
    /\ Logged("vendor_call", "F")

\* the arguments the provider who was entered with (who was entered once)
ArgsOf(who) == hist.log[CHOOSE i \in Entries(who) : TRUE].msg

\* C12: when transcribe_file fails over, the primary has been called with the
\* caller's file, model and options, and the fallback with the same file,
\* language, prompt, temperature and keyword arguments but with model None;
\* a result completed by the fallback carries the fallback's default model
C12_FallbackGetsNoModel ==
    (DirectCallDone /\ Entries("F") # {})
        => /\ ArgsOf("P") = Args(call.file, call.model, call.opts)
           /\ ArgsOf("F").file = call.file
           /\ ArgsOf("F").model = <<>>
           /\ ArgsOf("F").opts.language = call.opts.language
           /\ ArgsOf("F").opts.prompt = call.opts.prompt
           /\ ArgsOf("F").opts.temperature = call.opts.temperature
           /\ ArgsOf("F").opts.kwargs = call.opts.kwargs
           /\ Logged("_notify_completed", "F") =>
                /\ last_result # <<>>
                /\ last_result[1].provider = fallback_provider_type[1]
                /\ last_result[1].model = default_model(fallback_provider_type[1])

C12_Witness ==
    /\ DirectCallDone
    /\ call.model = <<"whisper-large-v3">>
    /\ call.opts.language = <<"pt">>
    /\ provider_type = "groq"
    /\ fallback_provider_type = <<"deepgram">>
    /\ Last(hist.fouts) = "result"
    /\ last_result # <<>>
    /\ last_result[1].model = "nova-2"

\* the message of the latest _notify_failed of provider who in a log
LastFailedMsg(log, who) ==
    LET is == {i \in 1..Len(log) : log[i].ev = "_notify_failed" /\ log[i].who = who}
    IN log[CHOOSE i \in is : \A j \in is : j <= i].msg

\* str(e) of the exception of type t raised by provider p whose latest
\* _notify_failed in log was made by who
RaisedMsg(t, p, log, who) ==
    CASE t = "APIKeyError" -> APIKeyError(p).msg
      [] t = "RateLimitError" -> RateLimitError(p).msg
      [] t = "RuntimeError" -> CallbackMsg
      [] OTHER -> LastFailedMsg(log, who)

\* C13: a transcribe_file call in which the primary raises a recoverable
\* error and the fallback raises too returns None, leaves the fallback's
\* message in last_error and leaves last_result and last_transcription as
\* they were before the call
C13_FallbackFailureRecorded ==
    [][(pc = "idle" /\ pc' = "done" /\ call'.op = "transcribe_file"
        /\ Last(hist'.pouts) \in {"TranscriptionError", "RateLimitError"}
        /\ Last(hist'.fouts) \in ErrorTypes)
       => /\ hist'.ret = <<>>
          /\ hist'.escaped = <<>>
          /\ last_error' = <<RaisedMsg(Last(hist'.fouts), fallback_provider_type[1], hist'.log, "F")>>
          /\ last_result' = last_result
          /\ last_transcription' = last_transcription]_vars

\* none of the caller's callbacks raises
QuietCallbacks(cb) == cb.started # "raises" /\ cb.completed # "raises" /\ cb.failed # "raises"

\* C14: a transcribe_file call (callbacks that do not raise) that returns a
\* text leaves that text in last_transcription and in last_result.text; a
\* call that returns None leaves both as they were
C14_LastTranscriptionTracksReturn ==
    [][(pc = "idle" /\ pc' = "done" /\ call'.op = "transcribe_file" /\ QuietCallbacks(call'.cb))
       => IF hist'.ret # <<>>
          THEN /\ last_transcription' = hist'.ret
               /\ last_result' # <<>>
               /\ last_result'[1].text = hist'.ret[1]
          ELSE /\ last_transcription' = last_transcription
               /\ last_result' = last_result]_vars

\* pass number i of the retry loop got a text (a non-None return value) from
\* transcribe_file: the primary or the fallback returned a result
YieldedText(i) == hist.pouts[i] = "result" \/ hist.fouts[i] = "result"

\* C15: transcribe_file_with_retry (callbacks that do not raise) makes at most
\* max_retries passes and fewer sleeps than passes; a pass that got a text
\* from transcribe_file is the last one and its text is returned
C15_RetryReturnsFirstText ==
    (call.op = "transcribe_file_with_retry" /\ QuietCallbacks(call.cb))
        => /\ Len(hist.pouts) <= call.max_retries
           /\ Len(hist.sleeps) <= Len(hist.pouts)
           /\ \A i \in 1..Len(hist.pouts) :
                YieldedText(i) => /\ i = Len(hist.pouts)
                                  /\ pc = "done"
                                  /\ hist.ret # <<>>
                                  /\ Len(hist.sleeps) < Len(hist.pouts)

-----------------------------------------------------------------------------
(* Properties of construction (SpecService) *)

\* constructing provider p with credential k fails in the current environment
ConstructionFails(p, k) ==
    k = "" \/ p \notin ProviderType \/ installed[p] # "ok" \/ (p = "google_cloud" /\ k # "creds.json")

PrimaryArg == IF ctor.ptype = <<>> THEN "groq" ELSE ctor.ptype[1]

FallbackConfigured == ctor.fallback_api_key \notin {<<>>, <<"">>} /\ ctor.fallback_type # <<>>

\* C16: TranscriptionService.__init__ raises exactly when the primary
\* provider cannot be constructed, and then no facade exists; when only the
\* fallback cannot be constructed it returns a facade without fallback, on
\* which a recoverable failure of the primary returns None with no fallback
\* call
C16_ConstructionFailures ==
    pc # "new"
        => /\ pc = "failed" <=> ConstructionFails(PrimaryArg, ctor.api_key)
           /\ pc = "failed" <=> ctor.raised # <<>>
           /\ pc = "failed" => /\ ctor.raised[1].type \in {"ValueError", "ImportError", "AttributeError"}
                                /\ call = NoCall
                                /\ last_error = <<>>
           /\ pc # "failed" =>
                /\ provider_type = PrimaryArg
                /\ ctor.fallback_failed <=>
                      (FallbackConfigured /\ ConstructionFails(ctor.fallback_type[1], ctor.fallback_api_key[1]))
                /\ fallback_provider_type =
                      IF FallbackConfigured /\ ~ctor.fallback_failed THEN ctor.fallback_type ELSE <<>>
                /\ (ctor.fallback_failed /\ DirectCallDone
                     /\ Last(hist.pouts) \in {"TranscriptionError", "RateLimitError"})
                      => /\ hist.ret = <<>>
                         /\ hist.escaped = <<>>
                         /\ Last(hist.fouts) = "not_called"
                         /\ Entries("F") = {}

C16_Witness ==
    /\ DirectCallDone
    /\ ctor.fallback_failed
    /\ ctor.fallback_type = <<"deepgram">>
    /\ installed["deepgram"] = "absent"
    /\ Last(hist.pouts) = "RateLimitError"
    /\ hist.ret = <<>>

-----------------------------------------------------------------------------
(* Properties of the registry (SpecRegistry) *)

\* C20: is_provider_available never raises, whatever the identity and
\* whatever importing the vendor library does, and returns False when the
\* library is absent; create_provider of the provider's class with a
\* credential then fails with the ImportError of _initialize_client
C20_AvailabilityNeverRaises ==
    /\ (pc = "done" /\ call.op = "is_provider_available")
          => /\ hist.escaped = <<>>
             /\ hist.result \in {<<TRUE>>, <<FALSE>>}
             /\ (call.identity \in ProviderType /\ installed[call.identity] = "absent")
                   => hist.result = <<FALSE>>
    /\ (pc = "done" /\ call.op = "create_provider" /\ call.api_key # ""
         /\ get_provider_class(call.identity) = <<ProviderClass(call.identity)>>
         /\ installed[call.identity] = "absent")
          => /\ hist.escaped # <<>>
             /\ hist.escaped[1] = OtherExc("ImportError", NotInstalledMsg)

\* the elements of a sequence
Range(q) == {q[i] : i \in 1..Len(q)}

RegisteredTypes == {registry[i].type : i \in 1..Len(registry)}

\* C21: create_provider for an identity that is not registered raises a
\* ValueError whose message lists the registered identities and constructs
\* nothing; for a registered identity what it constructs is an instance of
\* the class registered under it; what get_installed_providers returns is a
\* subset of get_available_providers
C21_RegistryCreate ==
    /\ (pc = "done" /\ call.op = "create_provider")
          => IF call.identity \notin RegisteredTypes
             THEN /\ hist.result = <<>>
                  /\ hist.escaped # <<>>
                  /\ hist.escaped[1].type = "ValueError"
                  /\ \A t \in RegisteredTypes : Contains(hist.escaped[1].msg, <<t>>)
                  /\ Contains(hist.escaped[1].msg, <<call.identity, "is", "not", "registered.">>)
             ELSE hist.result # <<>> =>
                    \E i \in 1..Len(registry) :
                        registry[i].type = call.identity /\ hist.result = <<registry[i].class>>
    /\ (pc = "done" /\ call.op = "get_installed_providers" /\ hist.result # <<>>)
          => /\ Range(hist.result[1]) \subseteq RegisteredTypes
             /\ \A t \in Range(hist.result[1]) : installed[t] = "ok"

C21_Witness ==
    /\ pc = "done"
    /\ call.op = "create_provider"
    /\ call.identity = "deepgram"
    /\ call.api_key = "sk-key"
    /\ RegisteredTypes = {"groq", "openai", "assemblyai"}
    /\ hist.escaped # <<>>
    /\ hist.escaped[1].type = "ValueError"

-----------------------------------------------------------------------------
(* Properties of a provider used on its own (SpecProvider) *)

\* the provider refused the request before the vendor was involved
RejectedBeforeVendor ==
    /\ ~Logged("vendor_call", "P")
    /\ ~Logged("_notify_started", "P")
    /\ ~Logged("on_transcription_started", "P")
    /\ ~Logged("_notify_completed", "P")
    /\ hist.result = <<>>

\* C8: every provider refuses an existing file whose extension is not in its
\* supported formats, or whose size is above its max_file_size_mb, before any
\* vendor call and before the started notification, and passes the
\* unsupported-format message (the size-exceeded message, for a supported
\* extension) to _notify_failed
C8_InvalidFileRejectedBeforeVendor ==
    (ProviderCallDone /\ call.file.exists)
        => LET p == provider_type
               f == call.file
               badExt == LStripDot(LowerToken(f.suffix)) \notin supported_formats(p)
               tooBig == f.size > max_file_size_mb(p) * MB
           IN /\ badExt => RejectedBeforeVendor /\ LoggedMsg("_notify_failed", "P", UnsupportedFormatMsg)
              /\ tooBig => RejectedBeforeVendor
              /\ (tooBig /\ ~badExt) => LoggedMsg("_notify_failed", "P", SizeExceededMsg)
              /\ (~tooBig /\ ~badExt) => Logged("vendor_call", "P") \/ call.cb.started = "raises"

C8_Witness ==
    /\ ProviderCallDone
    /\ provider_type = "google_cloud"
    /\ call.file = File(TRUE, ".wav", 480 * MB + 1)
    /\ RejectedBeforeVendor
    /\ LoggedMsg("_notify_failed", "P", SizeExceededMsg)

\* C9 as claimed: transcribe_file of a provider on a missing file ends with a
\* FileNotFoundError raised to the caller
C9_MissingFilePropagates ==
    (ProviderCallDone /\ ~call.file.exists)
        => /\ hist.escaped # <<>>
           /\ hist.escaped[1].type = "FileNotFoundError"

\* C9 as amended: transcribe_file of a provider on a missing file makes no
\* vendor call, passes the file-not-found message to _notify_failed and
\* returns None; no FileNotFoundError and no TranscriptionError leaves it
\* (only an exception of the caller's failed callback does)
C9_MissingFileReturnsNone ==
    (ProviderCallDone /\ ~call.file.exists)
        => /\ RejectedBeforeVendor
           /\ LoggedMsg("_notify_failed", "P", FileNotFoundMsg)
           /\ hist.result = <<>>
           /\ IF call.cb.failed = "raises"
              THEN hist.escaped = <<CallbackExc>>
              ELSE hist.escaped = <<>> /\ hist.pouts = <<"None">>

C9_Witness ==
    /\ ProviderCallDone
    /\ ~call.file.exists
    /\ hist.pouts = <<"None">>
    /\ LoggedMsg("_notify_failed", "P", FileNotFoundMsg)

\* the request passed the provider's validation
ValidationPassed == Logged("_notify_started", "P")

\* the markers the design document gives for every provider
DocAuthMarkers == {<<"invalid", "api", "key">>, <<"authentication">>, <<"401">>, <<"unauthorized">>}
DocRateMarkers == {<<"rate", "limit">>, <<"429">>}

\* the kind the design document's rule gives to a failure with message msg
DocKind(msg) ==
    IF \E m \in DocAuthMarkers : Contains(Lower(msg), m) THEN "APIKeyError"
    ELSE IF \E m \in DocRateMarkers : Contains(Lower(msg), m) THEN "RateLimitError"
    ELSE "TranscriptionError"

\* C17: in each of the five providers (callbacks that do not raise) a failure
\* after validation is an APIKeyError when its lower-cased message contains
\* "invalid api key", "authentication", "401" or "unauthorized", otherwise a
\* RateLimitError when it contains "rate limit" or "429", otherwise a generic
\* TranscriptionError
C17_ClassificationByMessage ==
    (ProviderCallDone /\ QuietCallbacks(call.cb) /\ ValidationPassed /\ hist.escaped # <<>>)
        => hist.escaped[1].type = DocKind(LastFailedMsg(hist.log, "P"))

\* C18: every exception that leaves a provider's transcribe_file after
\* validation has passed is a TranscriptionError, APIKeyError or
\* RateLimitError carrying the provider's identity, with recoverable false
\* for APIKeyError and true for the other two
C18_FailuresAreClassified ==
    (ProviderCallDone /\ ValidationPassed /\ hist.escaped # <<>>)
        => /\ hist.escaped[1].type \in {"TranscriptionError", "APIKeyError", "RateLimitError"}
           /\ hist.escaped[1].provider = <<provider_type>>
           /\ hist.escaped[1].recoverable = (hist.escaped[1].type # "APIKeyError")

\* the default model ids the design document lists
DocumentedDefault(p) ==
    CASE p = "groq" -> "whisper-large-v3-turbo"
      [] p = "openai" -> "whisper-1"
      [] p = "deepgram" -> "nova-2"
      [] p = "assemblyai" -> "best"
      [] p = "google_cloud" -> "chirp_2"

\* C19: a result returned by a provider's transcribe_file called with model
\* None has the provider's documented default model id, which is also
\* get_default_model() and the first entry of get_supported_models(); called
\* with a non-empty model it has that model
C19_DefaultModelUsed ==
    (ProviderCallDone /\ hist.result # <<>>)
        => IF call.model = <<>>
           THEN /\ hist.result[1].model = DocumentedDefault(provider_type)
                /\ hist.result[1].model = get_default_model(provider_type)
                /\ hist.result[1].model = get_supported_models(provider_type)[1]
           ELSE hist.result[1].model = call.model[1]

C19_Witness ==
    /\ ProviderCallDone
    /\ provider_type = "assemblyai"
    /\ call.model = <<>>
    /\ hist.result # <<>>
    /\ hist.result[1].text = "hello"
    /\ hist.result[1].model = "best"

-----------------------------------------------------------------------------
(* Properties of TranscriptionCache (SpecCache) *)

\* access_order holds exactly the keys of cache, each once
OrderMatchesCache ==
    /\ Len(access_order) = Cardinality(DOMAIN cache)
    /\ {access_order[i] : i \in 1..Len(access_order)} = DOMAIN cache

CacheInvariant ==
    (max_size >= 1) =>
        /\ size <= max_size
        /\ OrderMatchesCache
        /\ (call.op = "get" /\ call.key \in DOMAIN cache) => call.ret = hist.last_put[call.key]

GetAbsentChangesNothing ==
    (max_size >= 1 /\ call'.op = "get" /\ call'.key \notin DOMAIN cache)
        => /\ call'.ret = <<>>
           /\ call'.raised = ""
           /\ UNCHANGED cache_vars

\* C26: with max_size >= 1, after any sequence of get, put and clear the cache
\* holds at most max_size entries and access_order holds exactly the keys of
\* cache, each once; a get of a present key returns the value of the latest
\* put of that key; a get of an absent key returns None and changes nothing.
C26_CacheInvariants == [](CacheInvariant) /\ [][GetAbsentChangesNothing]_vars

\* a full cache of two entries of which one was just read, after an eviction
C26_Witness ==
    /\ max_size = 2
    /\ size = 2
    /\ call.op = "get"
    /\ call.ret # <<>>
    /\ \E k \in Keys : hist.last_put[k] # <<>> /\ k \notin DOMAIN cache

\* the present key whose latest get-hit or put is the oldest
LeastRecentlyUsed == CHOOSE k \in DOMAIN cache : \A j \in DOMAIN cache : hist.last_use[k] <= hist.last_use[j]

PutEvictsLeastRecentlyUsed ==
    (call'.op = "put")
        => IF call'.key \in DOMAIN cache
           THEN DOMAIN cache' = DOMAIN cache
           ELSE IF size = max_size
           THEN /\ call'.raised = ""
                /\ DOMAIN cache' = (DOMAIN cache \ {LeastRecentlyUsed}) \cup {call'.key}
                /\ \A k \in DOMAIN cache \ {LeastRecentlyUsed} : cache'[k] = cache[k]
           ELSE TRUE

\* C27: a put of a new key into a cache that holds max_size entries evicts
\* exactly the least recently used key and leaves every other entry as it
\* was; a put of a present key evicts nothing.
C27_PutEvictsLRU == [][PutEvictsLeastRecentlyUsed]_vars

-----------------------------------------------------------------------------
(* Properties of ClipboardHistory (SpecHistory) *)

\* entries are in the order they were added
InInsertionOrder == \A i \in 1..Len(history), j \in 1..Len(history) : i < j => history[i].timestamp < history[j].timestamp

IsSuffix(s, t) == Len(s) <= Len(t) /\ s = SubSeq(t, Len(t) - Len(s) + 1, Len(t))

\* add_item keeps the new entry and drops entries only from the old end
AddDropsOnlyOldest ==
    (call'.op = "add_item")
        => /\ history' # <<>>
           /\ history'[Len(history')].timestamp = hist'.clock
           /\ IsSuffix(SubSeq(history', 1, Len(history') - 1), history)

HistoryBounded == (call.op = "add_item") => Len(history) <= max_items

\* C30: after every add_item the history holds at most max_items entries,
\* whatever add_item, remove_item, clear_history and changes of max_items by
\* on_settings_changed came before; entries stay in insertion order and
\* add_item drops only the oldest entries.
C30_HistoryBounded == [](HistoryBounded /\ InInsertionOrder) /\ [][AddDropsOnlyOldest]_vars

-----------------------------------------------------------------------------
(* Properties of provider objects side by side (SpecInstances) *)

\* the credential the holder's object would call its vendor with
CredentialOf(s) == VendorCredential(instances[s][1], aai_settings)

OthersUntouched ==
    \A s \in Slots :
        (instances[s] # <<>> /\ call'.slot # s)
            => /\ instances'[s] = instances[s]
               /\ CredentialOf(s)' = CredentialOf(s)

\* C23: building or using one provider object never changes the credential
\* or the client another provider object calls its vendor with.
C23_NoSharedState == [][OthersUntouched]_vars

-----------------------------------------------------------------------------
(* Callback counts of transcribe_file (Spec) *)

\* how often the caller's callback of that name was invoked during the call
Invocations(name) == Cardinality({i \in 1..Len(hist.log) : hist.log[i].ev = name})

\* the call ended in a provider call that raised
EndedInProviderError ==
    IF hist.fouts[1] = "not_called"
    THEN hist.pouts[1] \notin {"result", "None"}
    ELSE hist.fouts[1] \notin {"result", "None"}

\* C25: a transcribe_file call that returns a text has invoked the caller's
\* on_transcription_completed exactly once and on_transcription_failed not
\* at all; one that returns None has not invoked on_transcription_completed,
\* and has invoked on_transcription_failed exactly once when a provider error
\* is the cause.
C25_CallbackCounts ==
    (/\ pc = "done"
     /\ call.op = "transcribe_file"
     /\ hist.escaped = <<>>
     /\ call.cb.failed = "returns"
     /\ call.cb.completed = "returns")
        => /\ hist.ret # <<>> => /\ Invocations("on_transcription_failed") = 0
                                 /\ Invocations("on_transcription_completed") = 1
           /\ hist.ret = <<>> => Invocations("on_transcription_completed") = 0
           /\ (hist.ret = <<>> /\ EndedInProviderError) => Invocations("on_transcription_failed") = 1

-----------------------------------------------------------------------------
(* Properties of two facades given the same calls (SpecTwins) *)

\* C24: two facades that differ only in the last_error an earlier call left,
\* given the same file and the same vendor answers, make the same number of
\* attempts and sleeps in transcribe_file_with_retry and return the same
\* value.
C24_AttemptsIndependentOfHistory ==
    /\ pc = twin.pc
    /\ Len(hist.pouts) = Len(twin.pouts)
    /\ Len(hist.sleeps) = Len(twin.sleeps)
    /\ hist.ret = twin.ret

-----------------------------------------------------------------------------
(* Properties of the application (SpecApp) *)

\* the worker threads inside transcribe_file_with_retry of the facade
InFlight == {w \in Recordings : workers[w] = "transcribing"}

\* C22: at no moment are two threads inside transcribe_file_with_retry of
\* the application's TranscriptionService.
C22_OneTranscriptionInFlight == Cardinality(InFlight) <= 1

\* C28: from the moment stop_recording has saved a recording until the
\* worker started for it returns from transcribe_file_with_retry, the
\* temporary file exists and holds that recording.
C28_WorkerFileIntact ==
    \A w \in Recordings : workers[w] \in {"spawned", "transcribing"} => temp_file = <<w>>

\* C29: the application and the recorder agree on whether a recording is in
\* progress, and no stop_recording reports "No audio data recorded" while
\* the recorder holds captured audio.
C29_RecordingFlagsAgree ==
    /\ is_recording = recorder.is_recording
    /\ ~(/\ call.op = "stop_recording"
         /\ call.outcome = "No audio data recorded"
         /\ recorder.audio_data # <<>>)

====
